---- MODULE Spec2Model ----
(***************************************************************************)
(* Model of the log ingestion / filtered virtualization engine of          *)
(* logcatAI: the LogTableModel store (ui/log_table/log_model.py), its      *)
(* filter engine, and the bulk file-load pipeline of LogTable              *)
(* (ui/log_table/log_table.py, ui/log_table/threads.py).                   *)
(*                                                                         *)
(* Python strings that the code inspects character by character (level,   *)
(* tag, message, filter fields) are sequences of one-character strings.    *)
(* Python dicts are TLA+ records; a key the dict does not have is a field  *)
(* the record does not have, and dict.get(k, d) is Get(d, k, default).     *)
(* List indices stored in filtered_indices are the 0-based Python values.  *)
(***************************************************************************)
EXTENDS Integers, Sequences, FiniteSets, TLC

VARIABLES
    allLogs,          \* LogTableModel._all_logs
    filteredIndices,  \* LogTableModel._filtered_indices
    matchedFilters,   \* LogTableModel._matched_filters
    filters,          \* LogTableModel._filters
    activeFilters,    \* LogTable.active_filters, one checked row each in filter_table
    pendingFileLogs,  \* LogTable.pending_file_logs
    fileLoadThread,   \* LogTable.file_load_thread and where its run() stands
    prepareThreads,   \* the PrepareModelThread objects whose run() has not finished
    mainQueue,        \* signals queued for the slots of the store-owning thread
    buffer,           \* LogBuffer.buffer
    errorLogs,        \* LogBuffer.error_logs
    parserMode,       \* which native parser the LogParser found at start-up
    loadsStarted,     \* how many load requests load_logcat_file has accepted
    addCalls,         \* arguments of the LogBuffer.add calls of SpecBuffer since the last clear
    queryResult,      \* what the last query (LogBuffer, detect, parse) returned, with its arguments
    logcatThread,     \* LogTable.logcat_thread, its collector and the adb process
    pendingLogs,      \* LogTable.pending_logs
    updateTimer,      \* LogTable.update_timer.isActive()
    logCollectionStartTime,  \* LogTable.log_collection_start_time against the clock
    buttons,          \* start_btn, stop_btn, pause_btn: enabled or not, and pause_btn's text
    mainThread,       \* what the store-owning thread is inside of between two of its steps
    warningsShown,    \* QMessageBox.warning calls of _on_logcat_error
    logcatStarts,     \* how many LogcatThread objects _start_logcat has started
    stopFlushed,      \* len(pending_logs) as the last _stop_logcat call found it
    patterns,         \* ErrorDetector.patterns
    onErrorDetected,  \* ErrorDetector.on_error_detected is a callback (not None)
    callbackLog,      \* the dicts on_error_detected received from the detect calls of SpecDetector
    logParser         \* format_type, use_rust and PARSER_AVAILABLE of the LogParser of SpecParse

storeVars == <<allLogs, filteredIndices, matchedFilters, filters>>
bufferVars == <<buffer, errorLogs>>
loadVars == <<activeFilters, pendingFileLogs, fileLoadThread, prepareThreads,
              mainQueue, parserMode, loadsStarted>>
queryVars == <<addCalls, queryResult>>
liveVars == <<logcatThread, pendingLogs, updateTimer, logCollectionStartTime,
              buttons, mainThread, warningsShown, logcatStarts, stopFlushed>>
detectorVars == <<patterns, onErrorDetected, callbackLog>>
coreVars == <<patterns, onErrorDetected, callbackLog, logParser>>
vars == <<allLogs, filteredIndices, matchedFilters, filters, activeFilters,
          pendingFileLogs, fileLoadThread, prepareThreads, mainQueue, buffer,
          errorLogs, parserMode, loadsStarted, addCalls, queryResult,
          logcatThread, pendingLogs, updateTimer, logCollectionStartTime,
          buttons, mainThread, warningsShown, logcatStarts, stopFlushed,
          patterns, onErrorDetected, callbackLog, logParser>>

-----------------------------------------------------------------------------
(* Bounds of the model *)

MaxLogs == 3      \* cap on len(_all_logs) reached by add_logs
MaxBatch == 2     \* longest batch handed to one add_logs call
MaxRules == 2     \* longest rule list drawn for a fixed rule set
MaxLoads == 2  \* load requests accepted by load_logcat_file in one run
MaxActive == 1    \* longest LogTable.active_filters
BufferMaxSize == 2   \* LogBuffer.max_size of the model (1000 in LogTable)
ErrorLogsMaxLen == 1 \* maxlen of LogBuffer.error_logs of the model (100 in the code)
MaxAdds == 3      \* LogBuffer.add calls between two clears
MaxCount == 3     \* largest count asked of get_recent and get_error_logs
MaxContext == 1   \* largest context_lines asked of get_context_around_error
BatchSize == 2    \* LogTable.batch_size (100 in the program)
MaxLines == 2     \* lines the adb processes of one run write
MaxStarts == 1    \* LogcatThread objects started in one run
MaxCustom == 2    \* patterns added to the ErrorDetector by add_pattern
MaxCallbacks == 2 \* detections handed to on_error_detected in one run
WarmupBatchCap == 50  \* the 50 of "min(50, self.batch_size // 2)"

-----------------------------------------------------------------------------
(* Python values *)

None == [kind |-> "None"]          \* Python None

False == [kind |-> "False"]        \* Python False, as returned by _evaluate_log
Dict(f) == [kind |-> "dict", rule |-> f]   \* a reference to the filter dict f

\* min() of Python on a non-empty collection of integers
Min(S) == CHOOSE x \in S : \A y \in S : x <= y
Max(S) == CHOOSE x \in S : \A y \in S : x >= y

Range(s) == {s[i] : i \in 1..Len(s)}

\* dict.get(k, default)
Get(d, k, default) == IF k \in DOMAIN d THEN d[k] ELSE default

\* truthiness of dict.get(k) for a string-valued key: missing (None) and ""
\* are both falsy
Truthy(d, k) == k \in DOMAIN d /\ d[k] # <<>>

\* the lower-case letter of each upper-case ASCII letter, and the reverse
ToLower == [A |-> "a", B |-> "b", C |-> "c", D |-> "d", E |-> "e", F |-> "f",
            G |-> "g", H |-> "h", I |-> "i", J |-> "j", K |-> "k", L |-> "l",
            M |-> "m", N |-> "n", O |-> "o", P |-> "p", Q |-> "q", R |-> "r",
            S |-> "s", T |-> "t", U |-> "u", V |-> "v", W |-> "w", X |-> "x",
            Y |-> "y", Z |-> "z"]
ToUpper == [a |-> "A", b |-> "B", c |-> "C", d |-> "D", e |-> "E", f |-> "F",
            g |-> "G", h |-> "H", i |-> "I", j |-> "J", k |-> "K", l |-> "L",
            m |-> "M", n |-> "N", o |-> "O", p |-> "P", q |-> "Q", r |-> "R",
            s |-> "S", t |-> "T", u |-> "U", v |-> "V", w |-> "W", x |-> "X",
            y |-> "Y", z |-> "Z"]
Digits == {"0", "1", "2", "3", "4", "5", "6", "7", "8", "9"}

LowerChar(c) == IF c \in DOMAIN ToLower THEN ToLower[c] ELSE c
UpperChar(c) == IF c \in DOMAIN ToUpper THEN ToUpper[c] ELSE c

\* str.lower() / str.upper()
Lower(s) == [i \in 1..Len(s) |-> LowerChar(s[i])]
Upper(s) == [i \in 1..Len(s) |-> UpperChar(s[i])]

\* Python "sub in s" on strings
In(sub, s) ==
    \E i \in 0..(Len(s) - Len(sub)) : SubSeq(s, i + 1, i + Len(sub)) = sub

\* re.compile(pattern) raises for an unterminated group.  The patterns of the
\* model are built from literal characters, "." and "(" only, so a pattern
\* compiles iff it has no "(".
ReCompiles(pattern) == \A i \in 1..Len(pattern) : pattern[i] # "("

\* one pattern atom against one character ("." matches any character)
AtomMatches(p, c, ignorecase) ==
    \/ p = "."
    \/ IF ignorecase THEN LowerChar(p) = LowerChar(c) ELSE p = c

\* compiled.search(text) is not None, for a pattern of literals and "."
ReSearch(pattern, ignorecase, text) ==
    \E i \in 0..(Len(text) - Len(pattern)) :
        \A j \in 1..Len(pattern) : AtomMatches(pattern[j], text[i + j], ignorecase)

\* end (exclusive, 1-based) of the maximal digit run of text starting at from
RECURSIVE DigitRunEnd(_, _)
DigitRunEnd(text, from) ==
    IF from <= Len(text) /\ text[from] \in Digits
    THEN DigitRunEnd(text, from + 1)
    ELSE from

\* positions where re.compile(key + r'[=:](\d+)', re.IGNORECASE) matches
IdMatchAt(key, text, i) ==
    /\ i + Len(key) + 1 <= Len(text)
    /\ Lower(SubSeq(text, i, i + Len(key) - 1)) = key
    /\ text[i + Len(key)] \in {"=", ":"}
    /\ text[i + Len(key) + 1] \in Digits

\* the pattern written with (\d) in place of (\d+)
ExtractId_OneDigit(key, message) ==
    IF \E i \in 1..Len(message) : IdMatchAt(key, message, i)
    THEN LET i == CHOOSE k \in 1..Len(message) :
                      /\ IdMatchAt(key, message, k)
                      /\ \A l \in 1..(k - 1) : ~IdMatchAt(key, message, l)
         IN <<message[i + Len(key) + 1]>>
    ELSE <<"-">>

\* (m.group(1) if m else '-') for m = pattern.search(message)
ExtractId(key, message) ==
    IF \E i \in 1..Len(message) : IdMatchAt(key, message, i)
    THEN LET i == CHOOSE k \in 1..Len(message) :
                      /\ IdMatchAt(key, message, k)
                      /\ \A l \in 1..(k - 1) : ~IdMatchAt(key, message, l)
             from == i + Len(key) + 1
         IN SubSeq(message, from, DigitRunEnd(message, from) - 1)
    ELSE <<"-">>

PidPattern(message) == ExtractId(<<"p", "i", "d">>, message)
TidPattern(message) == ExtractId(<<"t", "i", "d">>, message)

-----------------------------------------------------------------------------
(* LogTableModel: the filter engine *)

\* _get_compiled_regex: TRUE iff a compiled pattern is returned (not None)
Model_get_compiled_regex(pattern) == ReCompiles(pattern)

\* log_data = (timestamp, level, display, tag, message)
LevelOf(log) == log[2]
TagOf(log) == log[4]
MessageOf(log) == log[5]


\* _match_filter going on to "return True" when the keyword does not compile
Model_match_filter_BadRegexPasses(filter_data, log_data) ==
    LET level == log_data[2]
        tag == log_data[4]
        message == log_data[5]
        fields == Get(filter_data, "fields", <<>>)
    IN  /\ ~(Truthy(fields, "level") /\ Upper(level) # Upper(fields["level"]))
        /\ ~(Truthy(fields, "pid") /\ PidPattern(message) # fields["pid"])
        /\ ~(Truthy(fields, "tid") /\ TidPattern(message) # fields["tid"])
        /\ ~(/\ Truthy(fields, "tag")
             /\ IF Get(fields, "tag_case_sensitive", FALSE)
                THEN ~In(fields["tag"], tag)
                ELSE ~In(Lower(fields["tag"]), Lower(tag)))
        /\ ~(/\ Truthy(fields, "keyword")
             /\ IF Get(fields, "keyword_regex", FALSE)
                THEN /\ ReCompiles(fields["keyword"])
                     /\ ~ReSearch(fields["keyword"],
                                  ~Get(fields, "keyword_case_sensitive", FALSE), message)
                ELSE IF Get(fields, "keyword_case_sensitive", FALSE)
                     THEN ~In(fields["keyword"], message)
                     ELSE ~In(Lower(fields["keyword"]), Lower(message)))

\* _match_filter with the tag compared case-insensitively whatever
\* tag_case_sensitive says
Model_match_filter_TagFolded(filter_data, log_data) ==
    LET level == log_data[2]
        tag == log_data[4]
        message == log_data[5]
        fields == Get(filter_data, "fields", <<>>)
    IN  /\ ~(Truthy(fields, "level") /\ Upper(level) # Upper(fields["level"]))
        /\ ~(Truthy(fields, "pid") /\ PidPattern(message) # fields["pid"])
        /\ ~(Truthy(fields, "tid") /\ TidPattern(message) # fields["tid"])
        /\ ~(Truthy(fields, "tag") /\ ~In(Lower(fields["tag"]), Lower(tag)))
        /\ ~(/\ Truthy(fields, "keyword")
             /\ IF Get(fields, "keyword_regex", FALSE)
                THEN \/ ~ReCompiles(fields["keyword"])
                     \/ ~ReSearch(fields["keyword"],
                                  ~Get(fields, "keyword_case_sensitive", FALSE), message)
                ELSE IF Get(fields, "keyword_case_sensitive", FALSE)
                     THEN ~In(fields["keyword"], message)
                     ELSE ~In(Lower(fields["keyword"]), Lower(message)))

\* LogTableModel._match_filter: the fields are tested in the order level, pid,
\* tid, tag, keyword, and the first failing one returns False
Model_match_filter(filter_data, log_data) ==
    LET level == LevelOf(log_data)
        tag == TagOf(log_data)
        message == MessageOf(log_data)
        fields == Get(filter_data, "fields", <<>>)
    IN  IF Truthy(fields, "level") /\ Upper(level) # Upper(fields["level"])
        THEN FALSE
        ELSE IF Truthy(fields, "pid") /\ PidPattern(message) # fields["pid"]
        THEN FALSE
        ELSE IF Truthy(fields, "tid") /\ TidPattern(message) # fields["tid"]
        THEN FALSE
        ELSE IF /\ Truthy(fields, "tag")
                /\ IF Get(fields, "tag_case_sensitive", FALSE)
                   THEN ~In(fields["tag"], tag)
                   ELSE ~In(Lower(fields["tag"]), Lower(tag))
        THEN FALSE
        ELSE IF /\ Truthy(fields, "keyword")
                /\ IF Get(fields, "keyword_regex", FALSE)
                   THEN LET case_sensitive == Get(fields, "keyword_case_sensitive", FALSE)
                        IN  IF Model_get_compiled_regex(fields["keyword"])
                            THEN ~ReSearch(fields["keyword"], ~case_sensitive, message)
                            ELSE TRUE
                   ELSE IF Get(fields, "keyword_case_sensitive", FALSE)
                        THEN ~In(fields["keyword"], message)
                        ELSE ~In(Lower(fields["keyword"]), Lower(message))
        THEN FALSE
        ELSE TRUE


\* the list comprehensions without the f.get('enabled', True) test
RECURSIVE EnabledOfType_IgnoresEnabled(_, _)
EnabledOfType_IgnoresEnabled(fs, type) ==
    IF fs = <<>> THEN <<>>
    ELSE LET f == Head(fs)
             rest == EnabledOfType_IgnoresEnabled(Tail(fs), type)
         IN  IF Get(f, "type", "Show") = type THEN <<f>> \o rest ELSE rest

\* the list comprehensions of _evaluate_log: the enabled rules of one type,
\* in list order
RECURSIVE EnabledOfType(_, _)
EnabledOfType(fs, type) ==
    IF fs = <<>> THEN <<>>
    ELSE LET f == Head(fs)
             rest == EnabledOfType(Tail(fs), type)
         IN  IF Get(f, "enabled", TRUE) /\ Get(f, "type", "Show") = type
             THEN <<f>> \o rest
             ELSE rest


\* the loop without the early return: the last matching rule wins
RECURSIVE FirstMatch_Last(_, _)
FirstMatch_Last(fs, log_data) ==
    IF fs = <<>> THEN <<>>
    ELSE LET later == FirstMatch_Last(Tail(fs), log_data)
         IN  IF later # <<>> THEN later
             ELSE IF Model_match_filter(Head(fs), log_data) THEN <<Head(fs)>>
             ELSE <<>>

\* "for f in fs: if self._match_filter(f, log_data): return ...":
\* the first rule of fs that matches, as a sequence of length 0 or 1
RECURSIVE FirstMatch(_, _)
FirstMatch(fs, log_data) ==
    IF fs = <<>> THEN <<>>
    ELSE IF Model_match_filter(Head(fs), log_data) THEN <<Head(fs)>>
    ELSE FirstMatch(Tail(fs), log_data)


\* _evaluate_log with the Show rules consulted before the Ignore rules
Model_evaluate_log_ShowFirst(fs, log_data) ==
    IF fs = <<>> THEN None
    ELSE LET show_filters == EnabledOfType(fs, "Show")
             ignore_filters == EnabledOfType(fs, "Ignore")
             m == FirstMatch(show_filters, log_data)
         IN  IF m # <<>> THEN Dict(m[1])
             ELSE IF FirstMatch(ignore_filters, log_data) # <<>> THEN False
             ELSE IF show_filters # <<>> THEN False
             ELSE None

\* LogTableModel._evaluate_log
Model_evaluate_log(fs, log_data) ==
    IF fs = <<>> THEN None
    ELSE LET show_filters == EnabledOfType(fs, "Show")
             ignore_filters == EnabledOfType(fs, "Ignore")
         IN  IF FirstMatch(ignore_filters, log_data) # <<>> THEN False
             ELSE IF show_filters # <<>>
                  THEN LET m == FirstMatch(show_filters, log_data)
                       IN  IF m # <<>> THEN Dict(m[1]) ELSE False
                  ELSE None


\* the loop of add_logs with original_idx = i (start_idx forgotten)
RECURSIVE NewFiltered_NoOffset(_, _, _, _)
NewFiltered_NoOffset(fs, logs, start_idx, i) ==
    IF i >= Len(logs) THEN <<<<>>, <<>>>>
    ELSE LET matched_filter == Model_evaluate_log(fs, logs[i + 1])
             rest == NewFiltered_NoOffset(fs, logs, start_idx, i + 1)
         IN  IF matched_filter # False
             THEN <<<<i>> \o rest[1], <<matched_filter>> \o rest[2]>>
             ELSE rest

\* the loop of add_logs with new_matched appended for every log, also the
\* excluded ones
RECURSIVE NewFiltered_MatchedForAll(_, _, _, _)
NewFiltered_MatchedForAll(fs, logs, start_idx, i) ==
    IF i >= Len(logs) THEN <<<<>>, <<>>>>
    ELSE LET matched_filter == Model_evaluate_log(fs, logs[i + 1])
             rest == NewFiltered_MatchedForAll(fs, logs, start_idx, i + 1)
         IN  IF matched_filter # False
             THEN <<<<start_idx + i>> \o rest[1], <<matched_filter>> \o rest[2]>>
             ELSE <<rest[1], <<None>> \o rest[2]>>

\* the loop of add_logs over enumerate(logs): the pair
\* <<new_filtered, new_matched>> for the slice that starts at start_idx
RECURSIVE NewFiltered(_, _, _, _)
NewFiltered(fs, logs, start_idx, i) ==
    IF i >= Len(logs) THEN <<<<>>, <<>>>>
    ELSE LET original_idx == start_idx + i
             matched_filter == Model_evaluate_log(fs, logs[i + 1])
             rest == NewFiltered(fs, logs, start_idx, i + 1)
         IN  IF matched_filter # False
             THEN <<<<original_idx>> \o rest[1], <<matched_filter>> \o rest[2]>>
             ELSE rest

\* LogTableModel._reapply_filters: the pair <<_filtered_indices,
\* _matched_filters>> rebuilt from enumerate(self._all_logs)
RECURSIVE reapply_filters(_, _, _)
reapply_filters(fs, all_logs, idx) ==
    IF idx >= Len(all_logs) THEN <<<<>>, <<>>>>
    ELSE LET matched_filter == Model_evaluate_log(fs, all_logs[idx + 1])
             rest == reapply_filters(fs, all_logs, idx + 1)
         IN  IF matched_filter # False
             THEN <<<<idx>> \o rest[1], <<matched_filter>> \o rest[2]>>
             ELSE rest

-----------------------------------------------------------------------------
(* compute_filtered_indices_and_matches: the worker-side filter pass *)

\* get_regex: TRUE iff a compiled pattern is returned (not None)
get_regex(pattern) == ReCompiles(pattern)

\* compute_filtered_indices_and_matches.match_filter
match_filter(f, log_data) ==
    LET level == LevelOf(log_data)
        tag == TagOf(log_data)
        message == MessageOf(log_data)
        fields == Get(f, "fields", <<>>)
    IN  IF Truthy(fields, "level") /\ Upper(level) # Upper(fields["level"])
        THEN FALSE
        ELSE IF Truthy(fields, "pid") /\ PidPattern(message) # fields["pid"]
        THEN FALSE
        ELSE IF Truthy(fields, "tid") /\ TidPattern(message) # fields["tid"]
        THEN FALSE
        ELSE IF /\ Truthy(fields, "tag")
                /\ IF Get(fields, "tag_case_sensitive", FALSE)
                   THEN ~In(fields["tag"], tag)
                   ELSE ~In(Lower(fields["tag"]), Lower(tag))
        THEN FALSE
        ELSE IF /\ Truthy(fields, "keyword")
                /\ IF Get(fields, "keyword_regex", FALSE)
                   THEN \/ ~get_regex(fields["keyword"])
                        \/ ~ReSearch(fields["keyword"],
                                     ~Get(fields, "keyword_case_sensitive", FALSE),
                                     message)
                   ELSE IF Get(fields, "keyword_case_sensitive", FALSE)
                        THEN ~In(fields["keyword"], message)
                        ELSE ~In(Lower(fields["keyword"]), Lower(message))
        THEN FALSE
        ELSE TRUE

RECURSIVE first_match(_, _)
first_match(fs, log_data) ==
    IF fs = <<>> THEN <<>>
    ELSE IF match_filter(Head(fs), log_data) THEN <<Head(fs)>>
    ELSE first_match(Tail(fs), log_data)

\* evaluate_log without the "f.get('enabled', True)" test of its two list
\* comprehensions
evaluate_log_NoEnabledTest(fs, log_data) ==
    IF fs = <<>> THEN None
    ELSE LET show_filters == SelectSeq(fs, LAMBDA f : Get(f, "type", "Show") = "Show")
             ignore_filters == SelectSeq(fs, LAMBDA f : Get(f, "type", "Show") = "Ignore")
         IN  IF first_match(ignore_filters, log_data) # <<>> THEN False
             ELSE IF show_filters # <<>>
                  THEN LET m == first_match(show_filters, log_data)
                       IN  IF m # <<>> THEN Dict(m[1]) ELSE False
                  ELSE None

\* compute_filtered_indices_and_matches.evaluate_log
evaluate_log(fs, log_data) ==
    IF fs = <<>> THEN None
    ELSE LET show_filters == EnabledOfType(fs, "Show")
             ignore_filters == EnabledOfType(fs, "Ignore")
         IN  IF first_match(ignore_filters, log_data) # <<>> THEN False
             ELSE IF show_filters # <<>>
                  THEN LET m == first_match(show_filters, log_data)
                       IN  IF m # <<>> THEN Dict(m[1]) ELSE False
                  ELSE None

\* the loop over enumerate(logs) of compute_filtered_indices_and_matches
RECURSIVE compute_loop(_, _, _)
compute_loop(logs, fs, i) ==
    IF i >= Len(logs) THEN <<<<>>, <<>>>>
    ELSE LET matched == evaluate_log(fs, logs[i + 1])
             rest == compute_loop(logs, fs, i + 1)
         IN  IF matched # False
             THEN <<<<i>> \o rest[1], <<matched>> \o rest[2]>>
             ELSE rest

compute_filtered_indices_and_matches(logs, fs) ==
    IF logs = <<>> THEN <<<<>>, <<>>>> ELSE compute_loop(logs, fs, 0)

-----------------------------------------------------------------------------
(* Inputs: log tuples (timestamp, level, display, tag, message) and filter
   dicts.  Filter dicts have the shape FilterDialog.get_filter_data returns,
   or the partial shape of a filter list loaded from a .dlf file. *)

\* "01-15 10:23:45.123 1234 5678 E ActivityManager: FATAL EXCEPTION"
LogA == <<"01-15 10:23:45.123", <<"E">>, "Main",
          <<"A", "c", "t", "i", "v", "i", "t", "y", "M", "a", "n", "a", "g", "e", "r">>,
          <<"F", "A", "T", "A", "L", " ", "E", "X", "C", "E", "P", "T", "I", "O", "N">>>>
\* tag "Net", message "pid=99 up"
LogB == <<"01-15 10:23:45.200", <<"I">>, "Main",
          <<"N", "e", "t">>,
          <<"p", "i", "d", "=", "9", "9", " ", "u", "p">>>>
\* tag "net", message "fatal Tid:7"
LogC == <<"01-15 10:23:45.300", <<"W">>, "Cluster",
          <<"n", "e", "t">>,
          <<"f", "a", "t", "a", "l", " ", "T", "i", "d", ":", "7">>>>

LogPool == {LogA, LogB, LogC}

NoFields == [level |-> <<>>, pid |-> <<>>, tid |-> <<>>, tag |-> <<>>,
             tag_case_sensitive |-> FALSE, keyword |-> <<>>,
             keyword_regex |-> FALSE, keyword_case_sensitive |-> FALSE]

\* Show {tag: "ActivityManager"}
ShowTag == [type |-> "Show", color |-> "#ff0000",
            fields |-> [NoFields EXCEPT !.tag =
                <<"A", "c", "t", "i", "v", "i", "t", "y", "M", "a", "n", "a", "g", "e", "r">>]]
\* Ignore {keyword: "FATAL"}, case-insensitive
IgnoreKw == [type |-> "Ignore", color |-> "",
             fields |-> [NoFields EXCEPT !.keyword = <<"F", "A", "T", "A", "L">>]]
\* Show {pid: "99"}, partial dict
ShowPid == [type |-> "Show", fields |-> [pid |-> <<"9", "9">>]]
\* {level: "e"}: no type key (Show by default), no enabled key
ShowLevel == [color |-> "#00ff00", fields |-> [level |-> <<"e">>]]
\* Ignore {tag: "net"}, case-sensitive
IgnoreNet == [type |-> "Ignore", enabled |-> TRUE,
              fields |-> [NoFields EXCEPT !.tag = <<"n", "e", "t">>,
                                          !.tag_case_sensitive = TRUE]]
\* Show {keyword: "f.t"} as a regular expression, case-insensitive
ShowRegex == [type |-> "Show", color |-> "#0000ff",
              fields |-> [NoFields EXCEPT !.keyword = <<"f", ".", "t">>,
                                          !.keyword_regex = TRUE]]
\* a disabled Show rule that would match LogB
DisabledShow == [type |-> "Show", enabled |-> FALSE, color |-> "#cccccc",
                 fields |-> [level |-> <<"I">>]]
\* a Show rule with no fields at all
ShowAll == [type |-> "Show", enabled |-> TRUE, color |-> "#ffff00"]
\* Show {level: "i", tag: "net"}: two configured fields
ShowInfoNet == [type |-> "Show", color |-> "#ff00ff",
                fields |-> [NoFields EXCEPT !.level = <<"i">>,
                                            !.tag = <<"n", "e", "t">>]]

RulePool == {ShowTag, IgnoreKw, ShowPid, ShowLevel, IgnoreNet, ShowRegex,
             DisabledShow, ShowAll, ShowInfoNet}

\* rules on the pid and tid fields, and rules whose keyword is the regular
\* expression "f(", which re.compile rejects (unterminated group)
ShowPid9 == [type |-> "Show", fields |-> [pid |-> <<"9">>]]
ShowPidDash == [type |-> "Show", fields |-> [pid |-> <<"-">>]]
ShowTid7 == [type |-> "Show", color |-> "#00ffff",
             fields |-> [NoFields EXCEPT !.tid = <<"7">>]]
ShowBadRegex == [type |-> "Show", color |-> "#888888",
                 fields |-> [NoFields EXCEPT !.keyword = <<"f", "(">>,
                                             !.keyword_regex = TRUE]]
IgnoreBadRegex == [type |-> "Ignore", enabled |-> TRUE,
                   fields |-> [NoFields EXCEPT !.keyword = <<"f", "(">>,
                                               !.keyword_regex = TRUE]]
FieldRuleLists ==
    {<<>>, <<ShowPid>>, <<ShowPid9, ShowTid7>>, <<ShowPidDash>>, <<ShowTid7, ShowPid>>,
     <<ShowBadRegex>>, <<IgnoreBadRegex>>, <<IgnoreBadRegex, ShowRegex>>,
     <<ShowBadRegex, ShowPid>>, <<ShowBadRegex, IgnoreBadRegex>>}

\* all sequences over S of length at most n
SeqsUpTo(S, n) == UNION {[1..k -> S] : k \in 0..n}

\* the rule lists a fixed rule set is drawn from
RuleLists == SeqsUpTo(RulePool, MaxRules)

\* the rule lists set_filters and the worker-side pass are given while the
\* store also changes
StoreRuleLists == {<<>>, <<ShowTag, IgnoreKw>>, <<ShowLevel, ShowRegex>>,
                   <<DisabledShow>>, <<IgnoreNet, ShowPid, ShowAll>>}

\* the batches handed to add_logs
Batches == SeqsUpTo(LogPool, MaxBatch)

\* the contents of bulk-loaded files
FileA == <<LogA, LogB, LogC>>
FileB == <<LogC, LogA>>
Files == {FileA, FileB}

-----------------------------------------------------------------------------
(* LogTableModel: the store *)

\* LogTableModel.__init__
StoreInit ==
    /\ allLogs = <<>>
    /\ filteredIndices = <<>>
    /\ matchedFilters = <<>>
    /\ filters = <<>>


\* add_logs assigning the batch instead of extending _all_logs
add_logs_Replaces(logs) ==
    IF logs = <<>>
    THEN UNCHANGED storeVars
    ELSE LET new == NewFiltered(filters, logs, Len(allLogs), 0)
         IN  /\ allLogs' = logs
             /\ filteredIndices' = filteredIndices \o new[1]
             /\ matchedFilters' = matchedFilters \o new[2]
             /\ UNCHANGED filters

\* LogTableModel.add_logs
add_logs(logs) ==
    IF logs = <<>>
    THEN UNCHANGED storeVars
    ELSE LET start_idx == Len(allLogs)
             new == NewFiltered(filters, logs, start_idx, 0)
         IN  /\ allLogs' = allLogs \o logs
             /\ filteredIndices' = filteredIndices \o new[1]
             /\ matchedFilters' = matchedFilters \o new[2]
             /\ UNCHANGED filters

\* LogTableModel.set_filters
set_filters(fs) ==
    LET rebuilt == reapply_filters(fs, allLogs, 0)
    IN  /\ filters' = fs
        /\ filteredIndices' = rebuilt[1]
        /\ matchedFilters' = rebuilt[2]
        /\ UNCHANGED allLogs


\* clear without _filtered_indices.clear()
clear_KeepsIndices ==
    /\ allLogs' = <<>>
    /\ UNCHANGED <<filteredIndices, matchedFilters, filters>>

\* LogTableModel.clear
clear ==
    /\ allLogs' = <<>>
    /\ filteredIndices' = <<>>
    /\ matchedFilters' = <<>>
    /\ UNCHANGED filters


\* set_prepared_data swapping _all_logs only
set_prepared_data_KeepsView(all_logs, filtered_indices, matched_filters) ==
    /\ allLogs' = all_logs
    /\ UNCHANGED <<filteredIndices, matchedFilters, filters>>

\* LogTableModel.set_prepared_data
set_prepared_data(all_logs, filtered_indices, matched_filters) ==
    /\ allLogs' = all_logs
    /\ filteredIndices' = filtered_indices
    /\ matchedFilters' = matched_filters
    /\ UNCHANGED filters

\* LogTableModel.get_log_at: the tuple of a filtered row, None outside
get_log_at(row) ==
    IF 0 <= row /\ row < Len(filteredIndices)
    THEN LET idx == filteredIndices[row + 1] IN allLogs[idx + 1]
    ELSE None

get_filtered_count == Len(filteredIndices)
get_total_count == Len(allLogs)

-----------------------------------------------------------------------------
(* LogBuffer *)

\* the parsed_dict that _on_file_log_batch_parsed builds from a log tuple
ParsedDict(log_tuple) ==
    [timestamp |-> log_tuple[1], level |-> log_tuple[2], pid |-> "-", tid |-> "-",
     tag |-> log_tuple[4], message |-> log_tuple[5], display |-> log_tuple[3]]

\* deque.append that forgets the new item when the deque is full
DequeAppend_DropsNewest(dq, x, maxlen) ==
    IF Len(dq) >= maxlen THEN dq ELSE dq \o <<x>>

\* deque(maxlen=n).append(x)
DequeAppend(dq, x, maxlen) ==
    IF Len(dq) >= maxlen THEN Tail(dq) \o <<x>> ELSE dq \o <<x>>

\* LogBuffer.add that keeps only level E in error_logs
BufferAdd_OnlyE(bufs, log_data) ==
    IF DOMAIN log_data = {} THEN bufs
    ELSE <<DequeAppend(bufs[1], log_data, BufferMaxSize),
           IF Upper(Get(log_data, "level", <<>>)) = <<"E">>
           THEN DequeAppend(bufs[2], log_data, ErrorLogsMaxLen)
           ELSE bufs[2]>>

\* LogBuffer.add, as the pair <<buffer, error_logs>> after the call
BufferAdd(bufs, log_data) ==
    IF DOMAIN log_data = {} THEN bufs
    ELSE LET level == Upper(Get(log_data, "level", <<>>))
         IN  <<DequeAppend(bufs[1], log_data, BufferMaxSize),
               IF level \in {<<"E">>, <<"F">>, <<"A">>}
               THEN DequeAppend(bufs[2], log_data, ErrorLogsMaxLen)
               ELSE bufs[2]>>

\* the loop "for log_tuple in log_batch: self.log_buffer.add(parsed_dict)"
RECURSIVE BufferAddAll(_, _)
BufferAddAll(bufs, log_batch) ==
    IF log_batch = <<>> THEN bufs
    ELSE BufferAddAll(BufferAdd(bufs, ParsedDict(Head(log_batch))), Tail(log_batch))

\* list[start:] of Python for an integer start
PySliceFrom(list, start) ==
    LET n == Len(list)
        shifted == IF start < 0 THEN start + n ELSE start
        from == IF shifted < 0 THEN 0 ELSE IF shifted > n THEN n ELSE shifted
    IN  SubSeq(list, from + 1, n)

\* LogBuffer.get_recent: list(self.buffer)[-count:]
get_recent(count) == PySliceFrom(buffer, 0 - count)

\* LogBuffer.get_error_logs: list(self.error_logs)[-count:]
get_error_logs(count) == PySliceFrom(errorLogs, 0 - count)

\* the loop "for log in self.buffer" of get_context_around_error, from the
\* records still to visit, with context and found_error as they stand
RECURSIVE ContextLoop(_, _, _, _, _)
ContextLoop(logs, error_log, context_lines, context, found_error) ==
    IF logs = <<>> THEN context
    ELSE LET log == Head(logs)
             error_timestamp == Get(error_log, "timestamp", "")
         IN  IF log = error_log
             THEN ContextLoop(Tail(logs), error_log, context_lines,
                              Append(context, log), TRUE)
             ELSE IF found_error
             THEN IF Len(context) + 1 >= context_lines * 2 + 1
                  THEN Append(context, log)
                  ELSE ContextLoop(Tail(logs), error_log, context_lines,
                                   Append(context, log), TRUE)
             ELSE IF /\ error_timestamp # ""
                     /\ "timestamp" \in DOMAIN log
                     /\ log.timestamp = error_timestamp
             THEN ContextLoop(Tail(logs), error_log, context_lines,
                              Append(context, log), TRUE)
             ELSE ContextLoop(Tail(logs), error_log, context_lines, context, FALSE)

\* get_context_around_error without the test "error_index < 0": Python then
\* reads error_logs[-1]
get_context_around_error_NoLowerCheck(error_index, context_lines) ==
    IF error_index >= Len(errorLogs) \/ errorLogs = <<>> THEN <<>>
    ELSE LET at == IF error_index < 0 THEN Len(errorLogs) ELSE error_index + 1
         IN  ContextLoop(buffer, errorLogs[at], context_lines, <<>>, FALSE)

\* LogBuffer.get_context_around_error
get_context_around_error(error_index, context_lines) ==
    IF error_index < 0 \/ error_index >= Len(errorLogs) THEN <<>>
    ELSE ContextLoop(buffer, errorLogs[error_index + 1], context_lines, <<>>, FALSE)

\* no query of the LogBuffer has been made
NoResult == [op |-> "none"]

\* the records handed to LogBuffer.add: parsed dicts, one pair sharing a
\* timestamp, one without timestamp, and the empty dict
RecE1 == [timestamp |-> "01-15 10:23:45.100", level |-> <<"E">>, message |-> "crash"]
RecI1 == [timestamp |-> "01-15 10:23:45.100", level |-> <<"I">>, message |-> "up"]
RecF3 == [level |-> <<"F">>, message |-> "abort"]
EmptyDict == <<>>
BufferRecords == {RecE1, RecI1, RecF3, EmptyDict}

\* LogBuffer.add called by the owner of the buffer
BufferAddCall(log_data) ==
    /\ Len(addCalls) < MaxAdds
    /\ LET bufs == BufferAdd(<<buffer, errorLogs>>, log_data)
       IN  /\ buffer' = bufs[1]
           /\ errorLogs' = bufs[2]
    /\ addCalls' = Append(addCalls, log_data)
    /\ UNCHANGED <<storeVars, loadVars, queryResult, liveVars, coreVars>>

AddToBuffer == \E log_data \in BufferRecords : BufferAddCall(log_data)

\* LogBuffer.clear
BufferClear ==
    /\ buffer' = <<>>
    /\ errorLogs' = <<>>
    /\ addCalls' = <<>>
    /\ UNCHANGED <<storeVars, loadVars, queryResult, liveVars, coreVars>>

\* a call of get_recent(count)
GetRecentCall(count) ==
    /\ queryResult' = [op |-> "get_recent", count |-> count, value |-> get_recent(count)]
    /\ UNCHANGED <<storeVars, loadVars, bufferVars, addCalls, liveVars, coreVars>>

GetRecent == \E count \in 0..MaxCount : GetRecentCall(count)

\* a call of get_error_logs(count)
GetErrorLogsCall(count) ==
    /\ queryResult' = [op |-> "get_error_logs", count |-> count,
                       value |-> get_error_logs(count)]
    /\ UNCHANGED <<storeVars, loadVars, bufferVars, addCalls, liveVars, coreVars>>

GetErrorLogs == \E count \in 0..MaxCount : GetErrorLogsCall(count)

\* a call of get_context_around_error(error_index, context_lines)
GetContextCall(error_index, context_lines) ==
    /\ queryResult' = [op |-> "get_context_around_error", error_index |-> error_index,
                       context_lines |-> context_lines,
                       value |-> get_context_around_error(error_index, context_lines)]
    /\ UNCHANGED <<storeVars, loadVars, bufferVars, addCalls, liveVars, coreVars>>

GetContextAroundError ==
    \E error_index \in (0 - 1)..ErrorLogsMaxLen, context_lines \in 0..MaxContext :
        GetContextCall(error_index, context_lines)

-----------------------------------------------------------------------------
(* LogParser (core/parser.py): the regex fallback, character by character.
   A line is a sequence of one-character strings; every field the parser
   builds (timestamp and display included) is one too.  Where a value is
   used many times it is bound once, as the element of a one-element set. *)

\* what \s matches in the lines of the model
WhiteSpace == {" ", "\t", "\n", "\r"}
LevelLetters == {"V", "D", "I", "W", "E", "A", "F"}

\* the first index at or after from holding c, 0 when there is none
FirstIndexOf(s, from, c) ==
    IF \E j \in from..Len(s) : s[j] = c
    THEN CHOOSE j \in from..Len(s) :
             s[j] = c /\ \A k \in from..(j - 1) : s[k] # c
    ELSE 0

\* str.strip()
Strip(s) ==
    LET kept == {j \in 1..Len(s) : s[j] \notin WhiteSpace}
    IN  IF kept = {} THEN <<>>
        ELSE SubSeq(s, CHOOSE lo \in kept : \A j \in kept : lo <= j,
                       CHOOSE hi \in kept : \A j \in kept : hi >= j)

\* str.split(): the maximal runs of non-whitespace characters
RECURSIVE Split(_)
Split(s) ==
    LET t == Strip(s)
    IN  IF t = <<>> THEN <<>>
        ELSE LET e == CHOOSE j \in 2..(Len(t) + 1) :
                          /\ (j = Len(t) + 1 \/ t[j] \in WhiteSpace)
                          /\ \A k \in 1..(j - 1) : t[k] \notin WhiteSpace
             IN  <<SubSeq(t, 1, e - 1)>> \o Split(SubSeq(t, e, Len(t)))

\* The pieces of a regex whose pieces cannot share a character with the piece
\* that follows: a character class repeated min..max times, greedy.
Many == 1000
Run(chars) == [chars |-> chars, min |-> 1, max |-> Many]          \* [..]+
Exactly(chars, n) == [chars |-> chars, min |-> n, max |-> n]       \* [..]{n}
Spaces == Run(WhiteSpace)                                          \* \s+

\* the index after the match of piece at index from of s, 0 when it fails
MatchPiece(s, piece, from) ==
    LET end == CHOOSE j \in from..(Len(s) + 1) :
                   /\ (j = Len(s) + 1 \/ s[j] \notin piece.chars \/ j - from = piece.max)
                   /\ \A k \in from..(j - 1) : s[k] \in piece.chars
    IN  IF end - from >= piece.min THEN end ELSE 0

\* the indices after each piece of pattern[i..], matched one after the other
\* from index from of s; the list stops with a 0 at the piece that fails
RECURSIVE PieceEnds(_, _, _, _)
PieceEnds(s, pattern, i, from) ==
    IF i > Len(pattern) THEN <<>>
    ELSE CHOOSE ends \in {IF next = 0 THEN <<0>>
                          ELSE <<next>> \o PieceEnds(s, pattern, i + 1, next) :
                              next \in {MatchPiece(s, pattern[i], from)}} : TRUE

\* re.match(pattern, s) for such a pattern: the index after each piece, <<>>
\* when there is no match
Match(s, pattern) ==
    CHOOSE m \in {IF Len(ends) = Len(pattern) /\ ends[Len(ends)] # 0 THEN ends ELSE <<>> :
                      ends \in {PieceEnds(s, pattern, 1, 1)}} : TRUE

\* (\d{2}-\d{2}\s+\d{2}:\d{2}:\d{2}\.\d{3})
time_pattern ==
    <<Exactly(Digits, 2), Exactly({"-"}, 1), Exactly(Digits, 2), Spaces,
      Exactly(Digits, 2), Exactly({":"}, 1), Exactly(Digits, 2), Exactly({":"}, 1),
      Exactly(Digits, 2), Exactly({"."}, 1), Exactly(Digits, 3)>>

\* ^(\d+)\s+-\s+-  of format 1, up to the second "-"
threadtime_simple_pattern ==
    <<Run(Digits), Spaces, Exactly({"-"}, 1), Spaces, Exactly({"-"}, 1)>>

\* ^([VDIWEAF])\s+-\s+-\s+(\d+)\s+(\d+)\s+([VDIWEAF])  of format 2
threadtime_complex_pattern ==
    <<Exactly(LevelLetters, 1), Spaces, Exactly({"-"}, 1), Spaces, Exactly({"-"}, 1),
      Spaces, Run(Digits), Spaces, Run(Digits), Spaces, Exactly(LevelLetters, 1)>>

\* ^([DIWEFV])/  of format 3
level_tag_pattern == <<Exactly(LevelLetters \ {"A"}, 1), Exactly({"/"}, 1)>>

\* \s+([^:]+):\s+(.*)$ (need_space) or \s+([^:]+):\s*(.*)$ matched at from.
\* [^:] cannot cross a colon, so the colon of the pattern is the first one
\* at or after from; \s+ and [^:]+ share the characters before it, of which
\* the first is white space and there are at least two.  Gives the colon's
\* index, 0 when there is no match.
MatchTagColon(s, from, need_space) ==
    IF from <= Len(s) /\ s[from] \in WhiteSpace
    THEN CHOOSE r \in {IF /\ colon >= from + 2
                          /\ need_space => (colon < Len(s) /\ s[colon + 1] \in WhiteSpace)
                       THEN colon ELSE 0 :
                           colon \in {FirstIndexOf(s, from, ":")}} : TRUE
    ELSE 0

\* the literals the parser returns
MainDisplay == <<"M", "a", "i", "n">>
ClusterDisplay == <<"C", "l", "u", "s", "t", "e", "r">>
IVIDisplay == <<"I", "V", "I">>
PassengerDisplay == <<"P", "a", "s", "s", "e", "n", "g", "e", "r">>
NumberedDisplay(display_id) == <<"D", "i", "s", "p", "l", "a", "y", " ">> \o display_id

\* the three display_patterns: the keyword (IGNORECASE) and the class of the
\* separator run between it and the digits
DisplayPatterns ==
    <<[key |-> <<"d", "i", "s", "p", "l", "a", "y", "i", "d">>, seps |-> WhiteSpace \cup {":"}],
      [key |-> <<"d", "i", "s", "p", "l", "a", "y">>, seps |-> WhiteSpace \cup {":"}],
      [key |-> <<"d", "i", "s", "p", "l", "a", "y">>, seps |-> WhiteSpace]>>

\* the index of the first digit of group 1 when the pattern matches at i, else 0
DisplayMatchAt(pattern, message, i) ==
    IF /\ i + Len(pattern.key) <= Len(message)
       /\ Lower(SubSeq(message, i, i + Len(pattern.key) - 1)) = pattern.key
    THEN CHOOSE r \in {IF digits # 0 /\ MatchPiece(message, Run(Digits), digits) # 0
                       THEN digits ELSE 0 :
                           digits \in {MatchPiece(message, Run(pattern.seps),
                                                  i + Len(pattern.key))}} : TRUE
    ELSE 0

\* re.search(pattern, message, re.IGNORECASE): group 1 of the leftmost match,
\* <<>> when there is none (group 1 itself is never empty)
DisplaySearch(pattern, message) ==
    LET hits == {i \in 1..Len(message) : DisplayMatchAt(pattern, message, i) # 0}
    IN  IF hits = {} THEN <<>>
        ELSE LET i == CHOOSE h \in hits : \A g \in hits : h <= g
                 digits == DisplayMatchAt(pattern, message, i)
             IN  SubSeq(message, digits, MatchPiece(message, Run(Digits), digits) - 1)

\* LogParser._classify_display
_classify_display(tag, message) ==
    LET matched == {p \in 1..Len(DisplayPatterns) :
                        DisplaySearch(DisplayPatterns[p], message) # <<>>}
        tag_lower == Lower(tag)
    IN  IF matched # {}
        THEN LET first == CHOOSE p \in matched : \A q \in matched : p <= q
                 display_id == DisplaySearch(DisplayPatterns[first], message)
             IN  CASE display_id = <<"0">> -> MainDisplay
                   [] display_id = <<"1">> -> ClusterDisplay
                   [] display_id = <<"2">> -> IVIDisplay
                   [] OTHER -> NumberedDisplay(display_id)
        ELSE IF In(Lower(ClusterDisplay), tag_lower) THEN ClusterDisplay
        ELSE IF \/ In(Lower(IVIDisplay), tag_lower)
                \/ In(<<"i", "n", "f", "o", "t", "a", "i", "n", "m", "e", "n", "t">>, tag_lower)
             THEN IVIDisplay
        ELSE IF In(Lower(PassengerDisplay), tag_lower) THEN PassengerDisplay
        ELSE MainDisplay

\* the dict _parse_fallback returns for a matched line: tag and message are
\* group(n).strip()
ParsedFields(timestamp, level, pid, tid, tag_group, message_group) ==
    CHOOSE d \in {[timestamp |-> timestamp, level |-> level, pid |-> pid, tid |-> tid,
                   tag |-> tag, message |-> message,
                   display |-> _classify_display(tag, message)] :
                      tag \in {Strip(tag_group)}, message \in {Strip(message_group)}} : TRUE

\* format 1: ^(\d+)\s+-\s+-\s+([^:]+):\s+(.*)$
threadtime_simple(timestamp, remaining) ==
    CHOOSE d \in {
        IF m = <<>> THEN None
        ELSE LET colon == MatchTagColon(remaining, m[5], TRUE)
             IN  IF colon = 0 THEN None
                 ELSE ParsedFields(timestamp, <<"-">>, SubSeq(remaining, 1, m[1] - 1), <<"-">>,
                                   SubSeq(remaining, m[5], colon - 1),
                                   SubSeq(remaining, colon + 1, Len(remaining))) :
            m \in {Match(remaining, threadtime_simple_pattern)}} : TRUE

\* format 2: ^([VDIWEAF])\s+-\s+-\s+(\d+)\s+(\d+)\s+([VDIWEAF])\s+([^:]+):\s*(.*)$
threadtime_complex(timestamp, remaining) ==
    CHOOSE d \in {
        IF m = <<>> THEN None
        ELSE LET colon == MatchTagColon(remaining, m[11], FALSE)
             IN  IF colon = 0 THEN None
                 ELSE ParsedFields(timestamp, <<remaining[m[10]]>>,
                                   SubSeq(remaining, m[6], m[7] - 1),
                                   SubSeq(remaining, m[8], m[9] - 1),
                                   SubSeq(remaining, m[11], colon - 1),
                                   SubSeq(remaining, colon + 1, Len(remaining))) :
            m \in {Match(remaining, threadtime_complex_pattern)}} : TRUE

\* format 3: ^([DIWEFV])/([^(]+)\(\s*([^)]*?)\s*\)\s+(.*)$
\* ([^(]+)\( ends at the first "(", which must leave the tag a character;
\* [^)] cannot cross a ")", so \) is the first ")" after it, and white space
\* must follow it.
level_tag(timestamp, remaining) ==
    CHOOSE d \in {
        IF open <= 3 THEN None
        ELSE CHOOSE e \in {
                 IF close = 0 \/ close = Len(remaining) \/ remaining[close + 1] \notin WhiteSpace
                 THEN None
                 ELSE LET pid_tid_parts == Split(SubSeq(remaining, open + 1, close - 1))
                      IN  ParsedFields(timestamp, <<remaining[1]>>,
                              IF Len(pid_tid_parts) > 0 THEN pid_tid_parts[1] ELSE <<"-">>,
                              IF Len(pid_tid_parts) > 1 THEN pid_tid_parts[2] ELSE <<"-">>,
                              SubSeq(remaining, 3, open - 1),
                              SubSeq(remaining, close + 1, Len(remaining))) :
                     close \in {FirstIndexOf(remaining, open + 1, ")")}} : TRUE :
            open \in {IF Match(remaining, level_tag_pattern) = <<>> THEN 0
                      ELSE FirstIndexOf(remaining, 3, "(")}} : TRUE

\* the three formats in the order _parse_fallback tries them
FirstFormat(timestamp, remaining) ==
    CHOOSE d \in {IF simple # None THEN simple
                  ELSE CHOOSE e \in {IF complex # None THEN complex
                                     ELSE level_tag(timestamp, remaining) :
                                         complex \in {threadtime_complex(timestamp, remaining)}} : TRUE :
                      simple \in {threadtime_simple(timestamp, remaining)}} : TRUE

\* _parse_fallback with re.search in place of re.match for time_pattern: the
\* timestamp is looked for anywhere in the line
_parse_fallback_Search(line) ==
    LET hits == {i \in 1..Len(line) : Match(SubSeq(line, i, Len(line)), time_pattern) # <<>>}
    IN  IF hits = {} THEN None
        ELSE CHOOSE e \in {FirstFormat(SubSeq(rest, 1, m[11] - 1),
                                       Strip(SubSeq(rest, m[11], Len(rest)))) :
                               rest \in {SubSeq(line, Min(hits), Len(line))},
                               m \in {Match(SubSeq(line, Min(hits), Len(line)), time_pattern)}} : TRUE

\* LogParser._parse_fallback
_parse_fallback(line) ==
    CHOOSE d \in {IF m = <<>> THEN None
                  ELSE CHOOSE e \in {FirstFormat(timestamp, remaining) :
                                         timestamp \in {SubSeq(line, 1, m[11] - 1)},
                                         remaining \in {Strip(SubSeq(line, m[11], Len(line)))}} : TRUE :
                      m \in {Match(line, time_pattern)}} : TRUE

\* LogParser.parse (core/parser.py) with its two optional stages.  What the
\* native function rust_parse_log_line and the pylogcatparser library do in a
\* call is an input of the call: an answer is the value returned or
\* Raises(exception class).

Raises(exc) == [kind |-> "raise", exc |-> exc]
IsRaise(answer) == Get(answer, "kind", "") = "raise"
\* "not value" of a value that is None or a dict
Falsy(value) == value = None \/ value = EmptyDict
\* isinstance(value, dict)
IsDict(value) == value # None /\ ~IsRaise(value)

\* RustLogParser.parse: "except Exception" turns a raise of the native
\* function into None, a falsy result is None too
RustLogParser_parse(line, native) ==
    IF line = <<>> \/ Strip(line) = <<>> THEN None
    ELSE IF IsRaise(native) THEN None
    ELSE IF Falsy(native) THEN None
    ELSE native

\* the first stage of parse, None when parse goes on to the next one:
\* "if self.use_rust and self.rust_parser: try: result = ...; if result:
\* return result; except Exception"
NativeStage(self, line, native) ==
    IF ~self.use_rust THEN None
    ELSE CHOOSE r \in {IF Falsy(result) THEN None ELSE result :
                           result \in {RustLogParser_parse(line, native)}} : TRUE

\* threadtime_regex, up to the level:
\* ^(\d{2}\-\d{2})\s+(\d\d:\d\d:\d\d\.\d+)\s+(\d+)\s+(\d+|\-)\s+([VDIWEAF]|\-)
\* with \d+ and with \- for the thread id
threadtime_regex_tid ==
    <<Exactly(Digits, 2), Exactly({"-"}, 1), Exactly(Digits, 2), Spaces,
      Exactly(Digits, 2), Exactly({":"}, 1), Exactly(Digits, 2), Exactly({":"}, 1),
      Exactly(Digits, 2), Exactly({"."}, 1), Run(Digits), Spaces, Run(Digits), Spaces,
      Run(Digits), Spaces, Exactly(LevelLetters \cup {"-"}, 1)>>
threadtime_regex_dash ==
    <<Exactly(Digits, 2), Exactly({"-"}, 1), Exactly(Digits, 2), Spaces,
      Exactly(Digits, 2), Exactly({":"}, 1), Exactly(Digits, 2), Exactly({":"}, 1),
      Exactly(Digits, 2), Exactly({"."}, 1), Run(Digits), Spaces, Run(Digits), Spaces,
      Exactly({"-"}, 1), Spaces, Exactly(LevelLetters \cup {"-"}, 1)>>

\* re.search(threadtime_regex, line) finds a match: one of the two, followed
\* by \s+([^:]+):\s+(.*)$
threadtime_regex_matches(line) ==
    \E m \in {Match(line, threadtime_regex_tid), Match(line, threadtime_regex_dash)} :
        m # <<>> /\ MatchTagColon(line, m[17], TRUE) # 0

\* level_map and the two branches after it
level_map ==
    (<<"v", "e", "r", "b", "o", "s", "e">> :> <<"V">>) @@
    (<<"d", "e", "b", "u", "g">> :> <<"D">>) @@
    (<<"i", "n", "f", "o">> :> <<"I">>) @@
    (<<"w", "a", "r", "n">> :> <<"W">>) @@
    (<<"e", "r", "r", "o", "r">> :> <<"E">>) @@
    (<<"f", "a", "t", "a", "l">> :> <<"F">>) @@
    (<<"a", "s", "s", "e", "r", "t">> :> <<"A">>)
DelegateLevel(level_str) ==
    IF level_str \in DOMAIN level_map THEN level_map[level_str]
    ELSE IF level_str # <<>> /\ UpperChar(level_str[1]) \in LevelLetters
         THEN <<UpperChar(level_str[1])>>
    ELSE <<"-">>

\* the dict parse builds from the dict of the library (its values are
\* strings here, so str() leaves pid and tid as they are)
DelegateRecord(parsed_obj) ==
    CHOOSE d \in {[timestamp |-> IF date # <<>> /\ time_str # <<>>
                                 THEN Strip(date \o <<" ">> \o time_str) ELSE <<>>,
                   level |-> DelegateLevel(Get(parsed_obj, "level", <<>>)),
                   pid |-> Get(parsed_obj, "pid", <<>>),
                   tid |-> Get(parsed_obj, "tid", <<>>),
                   tag |-> tag, message |-> message,
                   display |-> _classify_display(tag, message)] :
                      date \in {Get(parsed_obj, "date", <<>>)},
                      time_str \in {Get(parsed_obj, "time", <<>>)},
                      tag \in {Get(parsed_obj, "tag", <<"U", "n", "k", "n", "o", "w", "n">>)},
                      message \in {Get(parsed_obj, "message", <<>>)}} : TRUE

\* DelegateStage without the two "except" clauses: what the library raises
\* leaves parse
DelegateStage_Propagates(self, line, delegate) ==
    IF ~(self.PARSER_AVAILABLE /\ self.format_type = "threadtime") THEN None
    ELSE IF IsRaise(delegate.construct) THEN delegate.construct
    ELSE CHOOSE r \in {IF IsRaise(parsed_obj) THEN parsed_obj
                       ELSE IF IsDict(parsed_obj) THEN DelegateRecord(parsed_obj)
                       ELSE Raises("ValueError") :
             parsed_obj \in {IF delegate.api \in {"parse_line", "parse"} THEN delegate.answer
                             ELSE IF threadtime_regex_matches(line) THEN delegate.answer
                             ELSE Raises("ValueError")}} : TRUE

\* the second stage of parse, None when parse goes on to the fallback.
\* delegate.construct is what LogCatParser("threadtime") does, delegate.api the
\* method the object has (parse_line, parse, or only build_log_line),
\* delegate.answer what that method does.  No match of the regex and a result
\* that is no dict raise ValueError; every raise ends in one of the two
\* "except" clauses.
DelegateStage(self, line, delegate) ==
    IF ~(self.PARSER_AVAILABLE /\ self.format_type = "threadtime") THEN None
    ELSE IF IsRaise(delegate.construct) THEN None
    ELSE CHOOSE r \in {IF IsRaise(parsed_obj) THEN None
                       ELSE IF IsDict(parsed_obj) THEN DelegateRecord(parsed_obj)
                       ELSE None :
             parsed_obj \in {IF delegate.api \in {"parse_line", "parse"} THEN delegate.answer
                             ELSE IF threadtime_regex_matches(line) THEN delegate.answer
                             ELSE Raises("ValueError")}} : TRUE

\* LogParser.parse: strip, give up on an empty line, then the stages in turn
parse(self, line, native, delegate) ==
    CHOOSE d \in {
        IF stripped = <<>> THEN None
        ELSE CHOOSE e \in {
                 IF first # None THEN first
                 ELSE CHOOSE f \in {IF second # None THEN second
                                    ELSE _parse_fallback(stripped) :
                          second \in {DelegateStage(self, stripped, delegate)}} : TRUE :
                     first \in {NativeStage(self, stripped, native)}} : TRUE :
            stripped \in {Strip(line)}} : TRUE

\* LogParser.__init__: use_rust holds when the caller asks for it, the wrapper
\* module was imported and RustLogParser() did not raise
LogParser(format_type, use_rust, RUST_PARSER_AVAILABLE, init_raises, PARSER_AVAILABLE) ==
    [format_type |-> format_type,
     use_rust |-> use_rust /\ RUST_PARSER_AVAILABLE /\ ~init_raises,
     PARSER_AVAILABLE |-> PARSER_AVAILABLE]

\* a run without the native module and without pylogcatparser
NoBackends == LogParser("threadtime", TRUE, TRUE, TRUE, FALSE)
NoDelegate == [construct |-> None, api |-> "parse_line", answer |-> None]

-----------------------------------------------------------------------------
(* ErrorDetector (core/detector.py).  A compiled pattern is the list of its
   alternatives ("|"); an alternative is a list of segments: literal text,
   \s+ or .* ; every pattern is compiled with re.IGNORECASE.  The description
   of a pattern, a text for the user, is left out. *)

Lit(text) == [kind |-> "lit", text |-> text]
SpaceRun == [kind |-> "run", chars |-> WhiteSpace, min |-> 1]              \* \s+
DotStar == [kind |-> "run", chars |-> {"dot"}, min |-> 0]                  \* .*

\* one character against the class of a run ("." is any character but "\n")
InClass(c, chars) == IF chars = {"dot"} THEN c # "\n" ELSE c \in chars

\* segments k, k + 1, ... of an alternative match text from position i on
RECURSIVE SegmentsMatch(_, _, _, _)
SegmentsMatch(segments, k, text, i) ==
    IF k > Len(segments)
    THEN TRUE
    ELSE LET segment == segments[k]
         IN  IF segment.kind = "lit"
             THEN LET end == i + Len(segment.text) - 1
                  IN  /\ end <= Len(text)
                      /\ \A j \in 1..Len(segment.text) :
                             LowerChar(text[i + j - 1]) = LowerChar(segment.text[j])
                      /\ SegmentsMatch(segments, k + 1, text, end + 1)
             ELSE \E n \in segment.min..(Len(text) - i + 1) :
                      /\ \A j \in i..(i + n - 1) : InClass(text[j], segment.chars)
                      /\ SegmentsMatch(segments, k + 1, text, i + n)

\* some alternative of the compiled pattern matches at position i of text
MatchesAt(compiled, text, i) ==
    \E a \in 1..Len(compiled) : SegmentsMatch(compiled[a], 1, text, i)

\* ErrorPattern.match: self.pattern.search(text), the leftmost match or None
ErrorPattern_match(pattern, text) ==
    LET starts == {i \in 1..(Len(text) + 1) : MatchesAt(pattern.pattern, text, i)}
    IN  IF starts = {} THEN None ELSE [kind |-> "Match", start |-> Min(starts) - 1]

\* ErrorPattern.__init__
ErrorPattern(name, pattern, severity) ==
    [name |-> name, pattern |-> pattern, severity |-> severity]

\* ErrorDetector._init_default_patterns: default_patterns, in the order of the list
default_patterns ==
    <<
      \* r'NullPointerException'
      ErrorPattern("NullPointerException",
          <<<<Lit(<<"N", "u", "l", "l", "P", "o", "i", "n", "t", "e", "r", "E", "x", "c", "e", "p", "t", "i", "o", "n">>)>>>>,
          "high"),
      \* r'OutOfMemoryError'
      ErrorPattern("OutOfMemoryError",
          <<<<Lit(<<"O", "u", "t", "O", "f", "M", "e", "m", "o", "r", "y", "E", "r", "r", "o", "r">>)>>>>,
          "critical"),
      \* r'ANR\s+in'
      ErrorPattern("ANR",
          <<<<Lit(<<"A", "N", "R">>), SpaceRun, Lit(<<"i", "n">>)>>>>,
          "critical"),
      \* r'FATAL\s+EXCEPTION|Process.*died'
      ErrorPattern("Crash",
          <<<<Lit(<<"F", "A", "T", "A", "L">>), SpaceRun, Lit(<<"E", "X", "C", "E", "P", "T", "I", "O", "N">>)>>,
            <<Lit(<<"P", "r", "o", "c", "e", "s", "s">>), DotStar, Lit(<<"d", "i", "e", "d">>)>>>>,
          "critical"),
      \* r'IllegalStateException'
      ErrorPattern("IllegalStateException",
          <<<<Lit(<<"I", "l", "l", "e", "g", "a", "l", "S", "t", "a", "t", "e", "E", "x", "c", "e", "p", "t", "i", "o", "n">>)>>>>,
          "medium"),
      \* r'NetworkError|SocketException|ConnectException'
      ErrorPattern("NetworkError",
          <<<<Lit(<<"N", "e", "t", "w", "o", "r", "k", "E", "r", "r", "o", "r">>)>>,
            <<Lit(<<"S", "o", "c", "k", "e", "t", "E", "x", "c", "e", "p", "t", "i", "o", "n">>)>>,
            <<Lit(<<"C", "o", "n", "n", "e", "c", "t", "E", "x", "c", "e", "p", "t", "i", "o", "n">>)>>>>,
          "medium"),
      \* r'Permission\s+denied|SecurityException'
      ErrorPattern("PermissionDenied",
          <<<<Lit(<<"P", "e", "r", "m", "i", "s", "s", "i", "o", "n">>), SpaceRun, Lit(<<"d", "e", "n", "i", "e", "d">>)>>,
            <<Lit(<<"S", "e", "c", "u", "r", "i", "t", "y", "E", "x", "c", "e", "p", "t", "i", "o", "n">>)>>>>,
          "medium"),
      \* r'VHAL.*error|VehicleHal.*failed'
      ErrorPattern("VHALError",
          <<<<Lit(<<"V", "H", "A", "L">>), DotStar, Lit(<<"e", "r", "r", "o", "r">>)>>,
            <<Lit(<<"V", "e", "h", "i", "c", "l", "e", "H", "a", "l">>), DotStar, Lit(<<"f", "a", "i", "l", "e", "d">>)>>>>,
          "high"),
      \* r'CarService.*error|CarService.*failed'
      ErrorPattern("CarServiceError",
          <<<<Lit(<<"C", "a", "r", "S", "e", "r", "v", "i", "c", "e">>), DotStar, Lit(<<"e", "r", "r", "o", "r">>)>>,
            <<Lit(<<"C", "a", "r", "S", "e", "r", "v", "i", "c", "e">>), DotStar, Lit(<<"f", "a", "i", "l", "e", "d">>)>>>>,
          "high")
    >>

\* add_pattern putting the new pattern at the head of the list
add_pattern_Prepends(ps, pattern) == <<pattern>> \o ps

\* ErrorDetector.add_pattern: self.patterns.append(pattern)
add_pattern(ps, pattern) == Append(ps, pattern)

\* "match = pattern.match(message) or pattern.match(tag)": a Match object is
\* always true, so the tag is searched only when the message has no match
PatternMatch(pattern, message, tag) ==
    LET in_message == ErrorPattern_match(pattern, message)
        in_tag == ErrorPattern_match(pattern, tag)
    IN  IF in_message # None
        THEN [text |-> "message", start |-> in_message.start]
        ELSE IF in_tag # None
        THEN [text |-> "tag", start |-> in_tag.start]
        ELSE None

\* the dict detect builds for the pattern that matched
error_info(pattern, match, log_data) ==
    [pattern |-> pattern, match |-> match, log |-> log_data,
     severity |-> pattern.severity]

\* the loop of detect trying every pattern on the message before any pattern
\* is tried on the tag
DetectLoop_MessageFirst(ps, n, log_data) ==
    LET message == Get(log_data, "message", <<>>)
        tag == Get(log_data, "tag", <<>>)
        in_message == {k \in n..Len(ps) : ErrorPattern_match(ps[k], message) # None}
        in_tag == {k \in n..Len(ps) : ErrorPattern_match(ps[k], tag) # None}
    IN  IF in_message # {}
        THEN error_info(ps[Min(in_message)],
                        PatternMatch(ps[Min(in_message)], message, tag), log_data)
        ELSE IF in_tag # {}
        THEN error_info(ps[Min(in_tag)],
                        PatternMatch(ps[Min(in_tag)], message, tag), log_data)
        ELSE None

\* "for pattern in self.patterns" of detect, from pattern n on: the first
\* pattern with a match returns
RECURSIVE DetectLoop(_, _, _)
DetectLoop(ps, n, log_data) ==
    IF n > Len(ps)
    THEN None
    ELSE CHOOSE r \in
            {IF match # None
             THEN error_info(ps[n], match, log_data)
             ELSE DetectLoop(ps, n + 1, log_data) :
                match \in {PatternMatch(ps[n], Get(log_data, "message", <<>>),
                                        Get(log_data, "tag", <<>>))}} : TRUE

ErrorLevels == {<<"E">>, <<"F">>, <<"A">>}

\* detect without the test of the level
detect_NoLevelGate(ps, log_data) ==
    IF log_data = <<>> THEN None ELSE DetectLoop(ps, 1, log_data)

\* ErrorDetector.detect: what it returns; the callback, when one is
\* registered, is called with the returned dict just before the return
detect(ps, log_data) ==
    IF log_data = <<>>
    THEN None
    ELSE IF Upper(Get(log_data, "level", <<>>)) \in ErrorLevels
    THEN DetectLoop(ps, 1, log_data)
    ELSE None

(* Inputs of the detector: parsed dicts (the keys detect reads) and custom
   patterns *)

TextCrash == [tag |-> <<"A", "c", "t", "i", "v", "i", "t", "y", "M", "a", "n", "a", "g", "e", "r">>,
              message |-> <<"F", "A", "T", "A", "L", " ", "E", "X", "C", "E", "P", "T", "I", "O", "N">>]
\* the tag matches ANR (third pattern), the message matches Crash (fourth)
TextTagFirst == [tag |-> <<"A", "N", "R", " ", "i", "n">>,
                 message |-> <<"P", "r", "o", "c", "e", "s", "s", " ", "x", " ", "d", "i", "e", "d">>]
\* no default pattern matches
TextPlain == [tag |-> <<"N", "e", "t">>, message |-> <<"d", "o", "w", "n">>]

Levels == {<<"V">>, <<"D">>, <<"I">>, <<"W">>, <<"E">>, <<"F">>, <<"A">>, <<"-">>}

DetectDict(level, text) == [level |-> level, tag |-> text.tag, message |-> text.message]

DetectRecords ==
    {DetectDict(level, TextCrash) : level \in Levels}
        \cup {DetectDict(<<"F">>, TextTagFirst), DetectDict(<<"W">>, TextTagFirst),
              DetectDict(<<"A">>, TextPlain), TextTagFirst, <<>>}

\* ErrorPattern("Net", r'net', ErrorSeverity.LOW): matches the tag of TextPlain
CustomNet == ErrorPattern("Net", <<<<Lit(<<"n", "e", "t">>)>>>>, "low")
\* ErrorPattern("Down", r'down'), severity MEDIUM by default: matches the message
CustomDown == ErrorPattern("Down", <<<<Lit(<<"d", "o", "w", "n">>)>>>>, "medium")
CustomPatterns == {CustomNet, CustomDown}

\* ErrorDetector.__init__, and LogTable._setup_data registering its callback
DetectorInit ==
    /\ patterns = default_patterns
    /\ onErrorDetected = TRUE
    /\ callbackLog = <<>>

\* a call of add_pattern(pattern)
AddPatternCall(pattern) ==
    /\ Len(patterns) < Len(default_patterns) + MaxCustom
    /\ patterns' = add_pattern(patterns, pattern)
    /\ UNCHANGED <<storeVars, loadVars, bufferVars, queryVars, liveVars,
                   onErrorDetected, callbackLog, logParser>>

AddPattern == \E pattern \in CustomPatterns : AddPatternCall(pattern)

\* a call of detect(log_data); registered is len(self.patterns) at the call
DetectCall(log_data) ==
    /\ Len(callbackLog) < MaxCallbacks
    /\ \E value \in {detect(patterns, log_data)} :
        /\ queryResult' = [op |-> "detect", log_data |-> log_data,
                           registered |-> Len(patterns), value |-> value]
        /\ callbackLog' = IF value # None /\ onErrorDetected
                          THEN Append(callbackLog, value)
                          ELSE callbackLog
    /\ UNCHANGED <<storeVars, loadVars, bufferVars, addCalls, liveVars,
                   patterns, onErrorDetected, logParser>>

Detect == \E log_data \in DetectRecords : DetectCall(log_data)

\* ErrorDetector.detect_in_text: one dict per registered pattern that
\* matches the text, in the order of the registry
detect_in_text(ps, text) ==
    LET hits == SelectSeq([k \in 1..Len(ps) |-> k],
                          LAMBDA k : ErrorPattern_match(ps[k], text) # None)
    IN  [j \in 1..Len(hits) |->
            [pattern |-> ps[hits[j]],
             match |-> ErrorPattern_match(ps[hits[j]], text),
             severity |-> ps[hits[j]].severity]]

\* texts searched with detect_in_text: one no default pattern matches, one
\* a default pattern matches
DetectTexts == {TextPlain.message, TextCrash.message}

\* a call of detect_in_text(text), which also invokes the callback once per
\* returned dict
DetectInTextCall_Notifies(text) ==
    /\ \E value \in {detect_in_text(patterns, text)} :
        /\ queryResult' = [op |-> "detect_in_text", text |-> text, value |-> value]
        /\ callbackLog' = IF onErrorDetected
                          THEN SubSeq(callbackLog \o value, 1, Min({MaxCallbacks, Len(callbackLog \o value)}))
                          ELSE callbackLog
    /\ UNCHANGED <<storeVars, loadVars, bufferVars, addCalls, liveVars,
                   patterns, onErrorDetected, logParser>>

\* a call of detect_in_text(text)
DetectInTextCall(text) ==
    /\ \E value \in {detect_in_text(patterns, text)} :
        queryResult' = [op |-> "detect_in_text", text |-> text, value |-> value]
    /\ UNCHANGED <<storeVars, loadVars, bufferVars, addCalls, liveVars,
                   patterns, onErrorDetected, callbackLog, logParser>>

DetectInText == \E text \in DetectTexts : DetectInTextCall(text)

\* "detector.on_error_detected = callback", or None
SetOnErrorDetected ==
    /\ onErrorDetected' = ~onErrorDetected
    /\ UNCHANGED <<storeVars, loadVars, bufferVars, queryVars, liveVars,
                   patterns, callbackLog, logParser>>

\* "01-15 10:23:45.123 1234 5678 E ActivityManager: FATAL EXCEPTION"
LineCanonical == <<"0", "1", "-", "1", "5", " ", "1", "0", ":", "2", "3", ":", "4", "5",
                   ".", "1", "2", "3", " ", "1", "2", "3", "4", " ", "5", "6", "7", "8",
                   " ", "E", " ", "A", "c", "t", "i", "v", "i", "t", "y", "M", "a", "n",
                   "a", "g", "e", "r", ":", " ", "F", "A", "T", "A", "L", " ", "E", "X",
                   "C", "E", "P", "T", "I", "O", "N">>
\* "01-15 10:23:45.100 E/Net( 12 34) down"
LineBracketed == <<"0", "1", "-", "1", "5", " ", "1", "0", ":", "2", "3", ":", "4", "5",
                   ".", "1", "0", "0", " ", "E", "/", "N", "e", "t", "(", " ", "1", "2",
                   " ", "3", "4", ")", " ", "d", "o", "w", "n">>
\* "01-15 10:23:45.200 77 - - Cluster: up"
LineSimple == <<"0", "1", "-", "1", "5", " ", "1", "0", ":", "2", "3", ":", "4", "5", ".",
                "2", "0", "0", " ", "7", "7", " ", "-", " ", "-", " ", "C", "l", "u", "s",
                "t", "e", "r", ":", " ", "u", "p">>
\* "01-15 10:23:45.300 E - - 1 2 A ivi:x"
LineComplex == <<"0", "1", "-", "1", "5", " ", "1", "0", ":", "2", "3", ":", "4", "5", ".",
                 "3", "0", "0", " ", "E", " ", "-", " ", "-", " ", "1", " ", "2", " ", "A",
                 " ", "i", "v", "i", ":", "x">>
\* "01-15 10:23:45.100 E/Net( ab cd) down"
LineNamedIds == <<"0", "1", "-", "1", "5", " ", "1", "0", ":", "2", "3", ":", "4", "5",
                  ".", "1", "0", "0", " ", "E", "/", "N", "e", "t", "(", " ", "a", "b",
                  " ", "c", "d", ")", " ", "d", "o", "w", "n">>
\* "  01-15 10:23:45.100 E/Net( 12 34) down"
LineIndented == <<" ", " ", "0", "1", "-", "1", "5", " ", "1", "0", ":", "2", "3", ":",
                  "4", "5", ".", "1", "0", "0", " ", "E", "/", "N", "e", "t", "(", " ",
                  "1", "2", " ", "3", "4", ")", " ", "d", "o", "w", "n">>
\* "x 01-15 10:23:45.100 E/Net( 12 34) down"
LineLateTime == <<"x", " ", "0", "1", "-", "1", "5", " ", "1", "0", ":", "2", "3", ":",
                  "4", "5", ".", "1", "0", "0", " ", "E", "/", "N", "e", "t", "(", " ",
                  "1", "2", " ", "3", "4", ")", " ", "d", "o", "w", "n">>
\* "01-15 10:23:45.1 12 34 E T: m"
LineShortTime == <<"0", "1", "-", "1", "5", " ", "1", "0", ":", "2", "3", ":", "4", "5",
                   ".", "1", " ", "1", "2", " ", "3", "4", " ", "E", " ", "T", ":", " ",
                   "m">>
\* "2024-01-15 10:23:45.100 E/Net( 12 34) down"
LineYear == <<"2", "0", "2", "4", "-", "0", "1", "-", "1", "5", " ", "1", "0", ":", "2",
              "3", ":", "4", "5", ".", "1", "0", "0", " ", "E", "/", "N", "e", "t", "(",
              " ", "1", "2", " ", "3", "4", ")", " ", "d", "o", "w", "n">>

\* the lines handed to parse
ParseLines ==
    {LineCanonical, LineBracketed, LineSimple, LineComplex, LineNamedIds, LineIndented,
     LineLateTime, LineShortTime, LineYear, <<" ", " ">>, <<"j", "u", "n", "k">>}

\* the record of the canonical line
CanonicalRecord ==
    [timestamp |-> SubSeq(LineCanonical, 1, 18), level |-> <<"E">>,
     pid |-> <<"1", "2", "3", "4">>, tid |-> <<"5", "6", "7", "8">>,
     tag |-> SubSeq(LineCanonical, 32, 46), message |-> SubSeq(LineCanonical, 49, 63),
     display |-> MainDisplay]

\* what the native function may do in a call
NativeAnswers == {Raises("RuntimeError"), None, EmptyDict, CanonicalRecord}

\* a dict of the library with all the fields of a threadtime line, and one
\* without process and thread id
DelegateFull ==
    [date |-> SubSeq(LineCanonical, 1, 5), time |-> SubSeq(LineCanonical, 7, 18),
     pid |-> <<"1", "2", "3", "4">>, tid |-> <<"5", "6", "7", "8">>,
     level |-> <<"e", "r", "r", "o", "r">>,
     tag |-> SubSeq(LineCanonical, 32, 46), message |-> SubSeq(LineCanonical, 49, 63)]
DelegateNoIds ==
    [date |-> SubSeq(LineCanonical, 1, 5), time |-> SubSeq(LineCanonical, 7, 18),
     level |-> <<"W", "a", "r", "n", "i", "n", "g">>,
     tag |-> <<"N", "e", "t">>, message |-> <<"d", "o", "w", "n">>]

\* what the library may do in a call
DelegateAnswers ==
    {[construct |-> Raises("TypeError"), api |-> "parse_line", answer |-> None]} \cup
    {[construct |-> None, api |-> api, answer |-> answer] :
        api \in {"parse_line", "parse", "build_log_line"},
        answer \in {Raises("ValueError"), Raises("KeyError"), None, DelegateFull, DelegateNoIds}}

\* LogParser(format_type, use_rust) in a run where the wrapper module was
\* imported or not, RustLogParser() raises or not, pylogcatparser was
\* imported or not
NewLogParser ==
    \E format_type \in {"threadtime", "brief"}, use_rust \in BOOLEAN,
       RUST_PARSER_AVAILABLE \in BOOLEAN, init_raises \in BOOLEAN,
       PARSER_AVAILABLE \in BOOLEAN :
        /\ logParser' = LogParser(format_type, use_rust, RUST_PARSER_AVAILABLE,
                                  init_raises, PARSER_AVAILABLE)
        /\ queryResult' = NoResult
        /\ UNCHANGED <<storeVars, loadVars, bufferVars, addCalls, liveVars, detectorVars>>

\* a call of parse(line) on the parser; self is the parser as the call found
\* it.  parse reads self and writes nothing, so the first call on a parser
\* shows all a later one can.
ParseCall(line, native, delegate) ==
    /\ queryResult = NoResult
    /\ \E value \in {parse(logParser, line, native, delegate)} :
        queryResult' = [op |-> "parse", self |-> logParser, line |-> line,
                        native |-> native, delegate |-> delegate, value |-> value]
    /\ UNCHANGED <<storeVars, loadVars, bufferVars, addCalls, liveVars, coreVars>>

Parse ==
    \E line \in ParseLines, native \in NativeAnswers, delegate \in DelegateAnswers :
        ParseCall(line, native, delegate)

-----------------------------------------------------------------------------
(* LogTable: the bulk file load, with FileLoadThread and PrepareModelThread *)

\* a file is the sequence of the chunks parse_file_streaming hands to the
\* callback, each the list of the tuples parsed from the chunk's lines
LoadFileA == <<<<LogA, LogB>>, <<LogC>>>>
LoadFileB == <<<<LogC, LogA>>>>
LoadFiles == {LoadFileA, LoadFileB}

\* the native parser found when LogParser was constructed:
\*   "streaming": logcat_parser_rs with parse_file_streaming
\*   "no_streaming": logcat_parser_rs without it (parse_file_streaming raises)
\*   "python": no logcat_parser_rs (use_rust is False)
ParserModes == {"streaming", "no_streaming", "python"}

\* file_load_thread: where run() stands (state), the chunks the parser has
\* still to hand over, parsed_count, should_cancel, whether load_complete was
\* emitted, and which load request created the thread
NoThread == [state |-> "none", chunks |-> <<>>, parsed_count |-> 0,
             should_cancel |-> FALSE, completed |-> FALSE, load |-> 0]

\* logcat_thread: where run() stands (state), the collector's two flags, its
\* process, the lines written to the pipe and not read yet, how many lines
\* this process and the ones before it have written, and whether resume() has
\* been called on the collector
NoLogcatThread == [state |-> "none", is_running |-> FALSE, is_paused |-> FALSE,
                   process |-> "None", stdout |-> <<>>, written |-> 0,
                   resumed |-> FALSE]

\* QThread.isRunning(): from start() until run() has returned
isRunning(thread) == thread.state \notin {"none", "finished"}

\* LogTable._setup_data
TableInit ==
    /\ activeFilters = <<>>
    /\ pendingFileLogs = <<>>
    /\ fileLoadThread = NoThread
    /\ prepareThreads = <<>>
    /\ mainQueue = <<>>
    /\ buffer = <<>>
    /\ errorLogs = <<>>
    /\ parserMode \in ParserModes
    /\ loadsStarted = 0
    /\ addCalls = <<>>
    /\ queryResult = NoResult
    /\ logcatThread = NoLogcatThread
    /\ pendingLogs = <<>>
    /\ updateTimer = FALSE
    /\ logCollectionStartTime = "None"
    /\ buttons = [start |-> TRUE, stop |-> FALSE, pause |-> FALSE, pause_text |-> "Pause"]
    /\ mainThread = "idle"
    /\ warningsShown = 0
    /\ logcatStarts = 0
    /\ stopFlushed = 0
    /\ DetectorInit
    /\ logParser = NoBackends

\* "filter_data = self.active_filters[filter_index].copy();
\*  filter_data['enabled'] = True"
EnabledCopy(f) ==
    [k \in (DOMAIN f) \cup {"enabled"} |-> IF k = "enabled" THEN TRUE ELSE f[k]]

\* the enabled_filters list _sync_filters_to_model hands to set_filters
enabled_filters == [i \in 1..Len(activeFilters) |-> EnabledCopy(activeFilters[i])]

\* LogTable.load_logcat_file: refused while file_load_thread.isRunning(),
\* otherwise pending_file_logs is emptied and a new FileLoadThread started
load_logcat_file(file) ==
    IF isRunning(fileLoadThread)
    THEN UNCHANGED <<pendingFileLogs, fileLoadThread>>
    ELSE /\ pendingFileLogs' = <<>>
         /\ fileLoadThread' = [state |-> "running", chunks |-> file, parsed_count |-> 0,
                               should_cancel |-> FALSE, completed |-> FALSE,
                               load |-> loadsStarted + 1]

LoadLogcatFile == \E file \in LoadFiles :
    /\ loadsStarted < MaxLoads
    /\ load_logcat_file(file)
    /\ loadsStarted' = IF isRunning(fileLoadThread) THEN loadsStarted ELSE loadsStarted + 1
    /\ UNCHANGED <<storeVars, bufferVars, activeFilters, prepareThreads, mainQueue,
                   parserMode, queryVars, liveVars, coreVars>>

\* FileLoadThread.cancel, called while run() has not returned (later it sets
\* a flag that nothing reads any more)
FileLoadCancel ==
    /\ isRunning(fileLoadThread)
    /\ ~fileLoadThread.should_cancel
    /\ fileLoadThread' = [fileLoadThread EXCEPT !.should_cancel = TRUE]
    /\ UNCHANGED <<storeVars, bufferVars, activeFilters, pendingFileLogs,
                   prepareThreads, mainQueue, parserMode, loadsStarted, queryVars, liveVars, coreVars>>

\* FileLoadThread.run, on_chunk_parsed: should_cancel is not set, one chunk is
\* parsed; a non-empty batch is emitted with log_batch_parsed (progress_updated
\* carries no state)
FileLoadChunk ==
    /\ fileLoadThread.state = "running"
    /\ parserMode = "streaming"
    /\ ~fileLoadThread.should_cancel
    /\ fileLoadThread.chunks # <<>>
    /\ LET batch == Head(fileLoadThread.chunks)
       IN  /\ mainQueue' = IF batch # <<>>
                           THEN Append(mainQueue, [sig |-> "log_batch_parsed", batch |-> batch])
                           ELSE mainQueue
           /\ fileLoadThread' = [fileLoadThread EXCEPT
                                    !.chunks = Tail(@),
                                    !.parsed_count = @ + Len(batch)]
    /\ UNCHANGED <<storeVars, bufferVars, activeFilters, pendingFileLogs,
                   prepareThreads, parserMode, loadsStarted, queryVars, liveVars, coreVars>>

\* run() that emits load_complete without looking at should_cancel
FileLoadComplete_IgnoresCancel ==
    /\ fileLoadThread.state = "running"
    /\ parserMode = "streaming"
    /\ fileLoadThread.chunks = <<>>
    /\ mainQueue' = Append(mainQueue, [sig |-> "load_complete",
                                       total |-> fileLoadThread.parsed_count,
                                       load |-> fileLoadThread.load])
    /\ fileLoadThread' = [fileLoadThread EXCEPT !.state = "emitted", !.completed = TRUE]
    /\ UNCHANGED <<storeVars, bufferVars, activeFilters, pendingFileLogs,
                   prepareThreads, parserMode, loadsStarted, queryVars, liveVars, coreVars>>

\* FileLoadThread.run after parse_file_streaming returned, should_cancel not
\* set: load_complete
FileLoadComplete ==
    /\ fileLoadThread.state = "running"
    /\ parserMode = "streaming"
    /\ ~fileLoadThread.should_cancel
    /\ fileLoadThread.chunks = <<>>
    /\ mainQueue' = Append(mainQueue, [sig |-> "load_complete",
                                       total |-> fileLoadThread.parsed_count,
                                       load |-> fileLoadThread.load])
    /\ fileLoadThread' = [fileLoadThread EXCEPT !.state = "emitted", !.completed = TRUE]
    /\ UNCHANGED <<storeVars, bufferVars, activeFilters, pendingFileLogs,
                   prepareThreads, parserMode, loadsStarted, queryVars, liveVars, coreVars>>

\* FileLoadThread.run when parse_file_streaming raises: load_error
FileLoadError ==
    /\ fileLoadThread.state = "running"
    /\ parserMode = "no_streaming"
    /\ mainQueue' = Append(mainQueue, [sig |-> "load_error"])
    /\ fileLoadThread' = [fileLoadThread EXCEPT !.state = "emitted"]
    /\ UNCHANGED <<storeVars, bufferVars, activeFilters, pendingFileLogs,
                   prepareThreads, parserMode, loadsStarted, queryVars, liveVars, coreVars>>

\* FileLoadThread.run returns: after its last signal; at once and without any
\* signal when use_rust_file_parsing is False; without a further signal when
\* on_chunk_parsed or the test before load_complete finds should_cancel set
FileLoadReturn ==
    /\ \/ fileLoadThread.state = "emitted"
       \/ fileLoadThread.state = "running" /\ parserMode = "python"
       \/ /\ fileLoadThread.state = "running"
          /\ parserMode = "streaming"
          /\ fileLoadThread.should_cancel
    /\ fileLoadThread' = [fileLoadThread EXCEPT !.state = "finished"]
    /\ UNCHANGED <<storeVars, bufferVars, activeFilters, pendingFileLogs,
                   prepareThreads, mainQueue, parserMode, loadsStarted, queryVars, liveVars, coreVars>>

\* LogTable._on_file_log_batch_parsed
OnFileLogBatchParsed ==
    /\ mainQueue # <<>>
    /\ Head(mainQueue).sig = "log_batch_parsed"
    /\ LET log_batch == Head(mainQueue).batch
           bufs == BufferAddAll(<<buffer, errorLogs>>, log_batch)
       IN  /\ pendingFileLogs' = pendingFileLogs \o log_batch
           /\ buffer' = bufs[1]
           /\ errorLogs' = bufs[2]
    /\ mainQueue' = Tail(mainQueue)
    /\ UNCHANGED <<storeVars, activeFilters, fileLoadThread, prepareThreads, parserMode, loadsStarted, queryVars, liveVars, coreVars>>

\* LogTable._on_file_load_complete: nothing to install, or a copy of
\* pending_file_logs and the store's rule list go to a new PrepareModelThread
OnFileLoadComplete ==
    /\ mainQueue # <<>>
    /\ Head(mainQueue).sig = "load_complete"
    /\ prepareThreads' =
           IF pendingFileLogs = <<>> THEN prepareThreads
           ELSE Append(prepareThreads, [logs |-> pendingFileLogs, filters |-> filters,
                                        load |-> Head(mainQueue).load])
    /\ mainQueue' = Tail(mainQueue)
    /\ UNCHANGED <<storeVars, bufferVars, activeFilters, pendingFileLogs,
                   fileLoadThread, parserMode, loadsStarted, queryVars, liveVars, coreVars>>

\* PrepareModelThread.run installing its result in the store itself instead
\* of emitting prepared_data
PrepareModelRun_WritesStore == \E n \in 1..Len(prepareThreads) :
    LET thread == prepareThreads[n]
        result == compute_filtered_indices_and_matches(thread.logs, thread.filters)
    IN  /\ allLogs' = thread.logs
        /\ filteredIndices' = result[1]
        /\ matchedFilters' = result[2]
        /\ prepareThreads' = SubSeq(prepareThreads, 1, n - 1)
                                 \o SubSeq(prepareThreads, n + 1, Len(prepareThreads))
        /\ UNCHANGED <<filters, mainQueue, bufferVars, activeFilters, pendingFileLogs,
                       fileLoadThread, parserMode, loadsStarted, queryVars, liveVars, coreVars>>

\* PrepareModelThread.run
PrepareModelRun == \E n \in 1..Len(prepareThreads) :
    LET thread == prepareThreads[n]
        result == compute_filtered_indices_and_matches(thread.logs, thread.filters)
    IN  /\ mainQueue' = Append(mainQueue,
               [sig |-> "prepared_data", all_logs |-> thread.logs,
                filtered_indices |-> result[1], matched_filters |-> result[2],
                load |-> thread.load])
        /\ prepareThreads' = SubSeq(prepareThreads, 1, n - 1)
                                 \o SubSeq(prepareThreads, n + 1, Len(prepareThreads))
        /\ UNCHANGED <<storeVars, bufferVars, activeFilters, pendingFileLogs,
                       fileLoadThread, parserMode, loadsStarted, queryVars, liveVars, coreVars>>

\* _on_prepared_data whose filter synchronisation stores the enabled rules
\* without _reapply_filters: the view installed is the worker's
OnPreparedData_NoReapply ==
    /\ mainQueue # <<>>
    /\ Head(mainQueue).sig = "prepared_data"
    /\ allLogs' = Head(mainQueue).all_logs
    /\ filters' = enabled_filters
    /\ filteredIndices' = Head(mainQueue).filtered_indices
    /\ matchedFilters' = Head(mainQueue).matched_filters
    /\ pendingFileLogs' = <<>>
    /\ mainQueue' = Tail(mainQueue)
    /\ UNCHANGED <<bufferVars, activeFilters, fileLoadThread, prepareThreads, parserMode, loadsStarted, queryVars, liveVars, coreVars>>

\* LogTable._on_prepared_data: set_prepared_data, pending_file_logs.clear(),
\* then _sync_filters_to_model, whose set_filters rebuilds the view of the
\* records just installed
OnPreparedData ==
    /\ mainQueue # <<>>
    /\ Head(mainQueue).sig = "prepared_data"
    /\ LET all_logs == Head(mainQueue).all_logs
           rebuilt == reapply_filters(enabled_filters, all_logs, 0)
       IN  /\ allLogs' = all_logs
           /\ filters' = enabled_filters
           /\ filteredIndices' = rebuilt[1]
           /\ matchedFilters' = rebuilt[2]
    /\ pendingFileLogs' = <<>>
    /\ mainQueue' = Tail(mainQueue)
    /\ UNCHANGED <<bufferVars, activeFilters, fileLoadThread, prepareThreads, parserMode, loadsStarted, queryVars, liveVars, coreVars>>

\* LogTable._on_file_load_error
OnFileLoadError ==
    /\ mainQueue # <<>>
    /\ Head(mainQueue).sig = "load_error"
    /\ pendingFileLogs' = <<>>
    /\ mainQueue' = Tail(mainQueue)
    /\ UNCHANGED <<storeVars, bufferVars, activeFilters, fileLoadThread,
                   prepareThreads, parserMode, loadsStarted, queryVars, liveVars, coreVars>>

\* LogTable._add_filter_rule with the dialog accepted: _add_filter_to_table
AddFilterRule == \E filter_data \in {ShowTag} :
    /\ mainThread = "idle"
    /\ Len(activeFilters) < MaxActive
    /\ activeFilters' = Append(activeFilters, filter_data)
    /\ UNCHANGED <<storeVars, bufferVars, pendingFileLogs, fileLoadThread,
                   prepareThreads, mainQueue, parserMode, loadsStarted, queryVars, liveVars, coreVars>>

\* LogTable.clear_all_logs
ClearAllLogs ==
    /\ mainThread = "idle"
    /\ pendingLogs' = <<>>
    /\ buffer' = <<>>
    /\ errorLogs' = <<>>
    /\ updateTimer' = FALSE
    /\ clear
    /\ UNCHANGED <<loadVars, queryVars, logcatThread, logCollectionStartTime, buttons,
                   mainThread, warningsShown, logcatStarts, stopFlushed, coreVars>>

-----------------------------------------------------------------------------
(* LogTable: live collection, with LogcatThread and ADBLogCollector *)

\* lines the adb process writes to its stdout, as readline returns them
\* "01-15 10:23:45.100 E/Net( 12 34) down\n"
LineNet == <<"0", "1", "-", "1", "5", " ", "1", "0", ":", "2", "3", ":", "4", "5", ".",
             "1", "0", "0", " ", "E", "/", "N", "e", "t", "(", " ", "1", "2", " ",
             "3", "4", ")", " ", "d", "o", "w", "n", "\n">>
\* "01-15 10:23:45.200 77 - - Cluster: up\n"
LineCluster == <<"0", "1", "-", "1", "5", " ", "1", "0", ":", "2", "3", ":", "4", "5", ".",
                 "2", "0", "0", " ", "7", "7", " ", "-", " ", "-", " ",
                 "C", "l", "u", "s", "t", "e", "r", ":", " ", "u", "p", "\n">>
\* " \n": nothing is left of it after strip()
LineBlank == <<" ", "\n">>
\* "junk\n": a line no pattern of the parser matches
LineJunk == <<"j", "u", "n", "k", "\n">>
LogcatLines == {LineNet, LineCluster, LineBlank, LineJunk}

\* str.strip() and log_parser.parse on the lines the process writes, computed
\* once per line; the LogTable's parser is one of a run without the native
\* module and without pylogcatparser
logParserOfTable == NoBackends
StrippedLine == [line \in LogcatLines |-> Strip(line)]
ParsedLine ==
    [line \in {Strip(l) : l \in LogcatLines} |-> parse(logParserOfTable, line, None, NoDelegate)]

\* subprocess.Popen.terminate(): no effect on a process that has ended
terminate(process) == IF process = "alive" THEN "terminated" ELSE process

\* current_batch_size without the warm-up branch
current_batch_size_NoWarmup(start_time) == BatchSize

\* "if elapsed < 3.0: min(50, self.batch_size // 2) else: self.batch_size"
current_batch_size(start_time) ==
    IF start_time = "recent"
    THEN Min({WarmupBatchCap, BatchSize \div 2})
    ELSE BatchSize

\* _process_pending_logs with "self.pending_logs = []" after the slice is
\* taken: what the batch leaves behind is forgotten
_process_pending_logs_DropsRest(pending, start_time, timer) ==
    IF pending = <<>>
    THEN /\ pendingLogs' = pending
         /\ updateTimer' = timer
         /\ UNCHANGED storeVars
    ELSE LET size == current_batch_size(start_time)
             logs_to_process == SubSeq(pending, 1, Min({size, Len(pending)}))
         IN  /\ add_logs(logs_to_process)
             /\ pendingLogs' = <<>>
             /\ updateTimer' = FALSE

\* LogTable._process_pending_logs run on a pending list, with the start time
\* and the timer as the calling handler has left them
_process_pending_logs(pending, start_time, timer) ==
    IF pending = <<>>
    THEN /\ pendingLogs' = pending
         /\ updateTimer' = timer
         /\ UNCHANGED storeVars
    ELSE LET size == current_batch_size(start_time)
             logs_to_process == SubSeq(pending, 1, Min({size, Len(pending)}))
             rest == SubSeq(pending, size + 1, Len(pending))
         IN  /\ add_logs(logs_to_process)
             /\ pendingLogs' = rest
             /\ updateTimer' = (rest # <<>>)

\* LogTable._start_logcat
StartLogcat ==
    /\ mainThread = "idle"
    /\ buttons.start
    /\ isRunning(logcatThread) \/ logcatStarts < MaxStarts
    /\ buttons' = [buttons EXCEPT !.start = FALSE, !.stop = TRUE, !.pause = TRUE]
    /\ IF isRunning(logcatThread)
       THEN UNCHANGED <<logcatThread, logCollectionStartTime, updateTimer, logcatStarts,
                        stopFlushed, coreVars>>
       ELSE /\ logCollectionStartTime' = "recent"
            /\ logcatThread' = [NoLogcatThread EXCEPT !.state = "started",
                                                      !.written = logcatThread.written]
            /\ updateTimer' = TRUE
            /\ logcatStarts' = logcatStarts + 1
            /\ stopFlushed' = 0
    /\ UNCHANGED <<storeVars, bufferVars, loadVars, queryVars, pendingLogs,
                   mainThread, warningsShown, coreVars>>

\* the clock passes the third second after log_collection_start_time
WarmupElapses ==
    /\ logCollectionStartTime = "recent"
    /\ logCollectionStartTime' = "old"
    /\ UNCHANGED <<storeVars, bufferVars, loadVars, queryVars, logcatThread, pendingLogs,
                   updateTimer, buttons, mainThread, warningsShown, logcatStarts, stopFlushed, coreVars>>

\* LogcatThread.run -> ADBLogCollector.collect, up to "self.is_running = True"
CollectBegin ==
    /\ logcatThread.state = "started"
    /\ logcatThread' = [logcatThread EXCEPT !.state = "spawning", !.is_running = TRUE]
    /\ UNCHANGED <<storeVars, bufferVars, loadVars, queryVars, pendingLogs, updateTimer,
                   logCollectionStartTime, buttons, mainThread, warningsShown, logcatStarts, stopFlushed, coreVars>>

\* subprocess.Popen starts adb
CollectSpawn ==
    /\ logcatThread.state = "spawning"
    /\ logcatThread' = [logcatThread EXCEPT !.state = "reading", !.process = "alive"]
    /\ UNCHANGED <<storeVars, bufferVars, loadVars, queryVars, pendingLogs, updateTimer,
                   logCollectionStartTime, buttons, mainThread, warningsShown, logcatStarts, stopFlushed, coreVars>>

\* subprocess.Popen raises (no adb to run): "except Exception" calls on_error,
\* which emits error_occurred; "finally" finds no process; run() returns
CollectSpawnFails ==
    /\ logcatThread.state = "spawning"
    /\ logcatThread' = [logcatThread EXCEPT !.state = "finished"]
    /\ mainQueue' = mainQueue \o <<[sig |-> "error_occurred"], [sig |-> "finished"]>>
    /\ UNCHANGED <<storeVars, bufferVars, activeFilters, pendingFileLogs, fileLoadThread,
                   prepareThreads, parserMode, loadsStarted, queryVars, pendingLogs,
                   updateTimer, logCollectionStartTime, buttons, mainThread,
                   warningsShown, logcatStarts, stopFlushed, coreVars>>

\* the adb process writes a line
ProcessWrites == \E line \in LogcatLines :
    /\ logcatThread.process = "alive"
    /\ logcatThread.written < MaxLines
    /\ logcatThread' = [logcatThread EXCEPT !.stdout = Append(@, line),
                                            !.written = @ + 1]
    /\ UNCHANGED <<storeVars, bufferVars, loadVars, queryVars, pendingLogs, updateTimer,
                   logCollectionStartTime, buttons, mainThread, warningsShown, logcatStarts, stopFlushed, coreVars>>

\* the adb process ends on its own (device unplugged, adb server killed)
ProcessDies ==
    /\ logcatThread.process = "alive"
    /\ logcatThread' = [logcatThread EXCEPT !.process = "exited"]
    /\ UNCHANGED <<storeVars, bufferVars, loadVars, queryVars, pendingLogs, updateTimer,
                   logCollectionStartTime, buttons, mainThread, warningsShown, logcatStarts, stopFlushed, coreVars>>

\* the loop body with is_paused tested after strip() instead of before the
\* line is looked at: a paused collector still delivers
CollectLine_IgnoresPause ==
    /\ logcatThread.state = "reading"
    /\ logcatThread.stdout # <<>>
    /\ LET line == StrippedLine[Head(logcatThread.stdout)]
       IN  IF ~logcatThread.is_running
           THEN /\ logcatThread' = [logcatThread EXCEPT !.stdout = Tail(@),
                                        !.state = "finished", !.process = terminate(@)]
                /\ mainQueue' = Append(mainQueue, [sig |-> "finished"])
           ELSE /\ logcatThread' = [logcatThread EXCEPT !.stdout = Tail(@)]
                /\ mainQueue' = IF line # <<>>
                                THEN Append(mainQueue, [sig |-> "log_received", line |-> line,
                                                        resumed |-> logcatThread.resumed])
                                ELSE mainQueue
    /\ UNCHANGED <<storeVars, bufferVars, activeFilters, pendingFileLogs, fileLoadThread,
                   prepareThreads, parserMode, loadsStarted, queryVars, pendingLogs,
                   updateTimer, logCollectionStartTime, buttons, mainThread,
                   warningsShown, logcatStarts, stopFlushed, coreVars>>

\* one round of "for line in iter(self.process.stdout.readline, '')" with a
\* line in the pipe: break (then "finally" and the end of run()) when
\* is_running is off, skip the line when is_paused, else strip it and hand it
\* to on_log_received, which emits log_received, unless nothing is left of it.
\* The queued signal also notes whether resume() had been called by then.
CollectLine ==
    /\ logcatThread.state = "reading"
    /\ logcatThread.stdout # <<>>
    /\ LET line == StrippedLine[Head(logcatThread.stdout)]
       IN  IF ~logcatThread.is_running
           THEN /\ logcatThread' = [logcatThread EXCEPT !.stdout = Tail(@),
                                        !.state = "finished", !.process = terminate(@)]
                /\ mainQueue' = Append(mainQueue, [sig |-> "finished"])
           ELSE /\ logcatThread' = [logcatThread EXCEPT !.stdout = Tail(@)]
                /\ mainQueue' = IF ~logcatThread.is_paused /\ line # <<>>
                                THEN Append(mainQueue, [sig |-> "log_received", line |-> line,
                                                        resumed |-> logcatThread.resumed])
                                ELSE mainQueue
    /\ UNCHANGED <<storeVars, bufferVars, activeFilters, pendingFileLogs, fileLoadThread,
                   prepareThreads, parserMode, loadsStarted, queryVars, pendingLogs,
                   updateTimer, logCollectionStartTime, buttons, mainThread,
                   warningsShown, logcatStarts, stopFlushed, coreVars>>

\* readline returns '' (the process has ended and the pipe is empty): the
\* loop ends without an exception, "finally" runs, run() returns
CollectEOF ==
    /\ logcatThread.state = "reading"
    /\ logcatThread.stdout = <<>>
    /\ logcatThread.process # "alive"
    /\ logcatThread' = [logcatThread EXCEPT !.state = "finished"]
    /\ mainQueue' = Append(mainQueue, [sig |-> "finished"])
    /\ UNCHANGED <<storeVars, bufferVars, activeFilters, pendingFileLogs, fileLoadThread,
                   prepareThreads, parserMode, loadsStarted, queryVars, pendingLogs,
                   updateTimer, logCollectionStartTime, buttons, mainThread,
                   warningsShown, logcatStarts, stopFlushed, coreVars>>

\* _parse_log_line without "if not parsed_dict: return None"
_parse_log_line_NoNoneCheck(line) ==
    LET parsed_dict == ParsedLine[line]
    IN  [log_data |-> <<Get(parsed_dict, "timestamp", <<>>),
                        Get(parsed_dict, "level", <<"-">>),
                        Get(parsed_dict, "display", MainDisplay),
                        Get(parsed_dict, "tag", <<"U", "n", "k", "n", "o", "w", "n">>),
                        Get(parsed_dict, "message", <<>>)>>,
         bufs |-> BufferAdd(<<buffer, errorLogs>>, parsed_dict),
         detected |-> <<parsed_dict>>]

\* LogTable._parse_log_line: the tuple, the two deques after log_buffer.add,
\* and the arguments of its calls of error_detector.detect
_parse_log_line(line) ==
    LET parsed_dict == ParsedLine[line]
    IN  IF parsed_dict = None
        THEN [log_data |-> None, bufs |-> <<buffer, errorLogs>>, detected |-> <<>>]
        ELSE [log_data |-> <<Get(parsed_dict, "timestamp", <<>>),
                             Get(parsed_dict, "level", <<"-">>),
                             Get(parsed_dict, "display", MainDisplay),
                             Get(parsed_dict, "tag", <<"U", "n", "k", "n", "o", "w", "n">>),
                             Get(parsed_dict, "message", <<>>)>>,
              bufs |-> BufferAdd(<<buffer, errorLogs>>, parsed_dict),
              detected |-> <<parsed_dict>>]

\* _on_log_received with "len(self.pending_logs) > self.batch_size"
OnLogReceived_StrictThreshold ==
    /\ mainThread \in {"idle", "warning"}
    /\ mainQueue # <<>>
    /\ Head(mainQueue).sig = "log_received"
    /\ mainQueue' = Tail(mainQueue)
    /\ \E parsed \in {_parse_log_line(Head(mainQueue).line)} :
       \E pending \in {Append(pendingLogs, parsed.log_data)} :
           /\ buffer' = parsed.bufs[1]
           /\ errorLogs' = parsed.bufs[2]
           /\ IF parsed.log_data = None
              THEN UNCHANGED <<storeVars, pendingLogs, updateTimer>>
              ELSE IF Len(pending) > BatchSize
              THEN _process_pending_logs(pending, logCollectionStartTime, updateTimer)
              ELSE /\ pendingLogs' = pending
                   /\ updateTimer' = TRUE
                   /\ UNCHANGED storeVars
    /\ UNCHANGED <<activeFilters, pendingFileLogs, fileLoadThread, prepareThreads,
                   parserMode, loadsStarted, queryVars, logcatThread,
                   logCollectionStartTime, buttons, mainThread, warningsShown,
                   logcatStarts, stopFlushed, coreVars>>

\* LogTable._on_log_received, the slot of LogcatThread.log_received
OnLogReceived ==
    /\ mainThread \in {"idle", "warning"}
    /\ mainQueue # <<>>
    /\ Head(mainQueue).sig = "log_received"
    /\ mainQueue' = Tail(mainQueue)
    /\ \E parsed \in {_parse_log_line(Head(mainQueue).line)} :
       \E pending \in {Append(pendingLogs, parsed.log_data)} :
           /\ buffer' = parsed.bufs[1]
           /\ errorLogs' = parsed.bufs[2]
           /\ IF parsed.log_data = None
              THEN UNCHANGED <<storeVars, pendingLogs, updateTimer>>
              ELSE IF Len(pending) >= BatchSize
              THEN _process_pending_logs(pending, logCollectionStartTime, updateTimer)
              ELSE /\ pendingLogs' = pending
                   /\ updateTimer' = TRUE
                   /\ UNCHANGED storeVars
    /\ UNCHANGED <<activeFilters, pendingFileLogs, fileLoadThread, prepareThreads,
                   parserMode, loadsStarted, queryVars, logcatThread,
                   logCollectionStartTime, buttons, mainThread, warningsShown,
                   logcatStarts, stopFlushed, coreVars>>

\* update_timer.timeout -> LogTable._process_pending_logs
TimerTick ==
    /\ mainThread \in {"idle", "warning"}
    /\ updateTimer
    /\ _process_pending_logs(pendingLogs, logCollectionStartTime, updateTimer)
    /\ UNCHANGED <<bufferVars, loadVars, queryVars, logcatThread,
                   logCollectionStartTime, buttons, mainThread, warningsShown,
                   logcatStarts, stopFlushed, coreVars>>

\* _stop_logcat without "if self.pending_logs: self._process_pending_logs()"
_stop_logcat_NoFlush ==
    /\ logCollectionStartTime' = "None"
    /\ stopFlushed' = Len(pendingLogs)
    /\ pendingLogs' = pendingLogs
    /\ updateTimer' = FALSE
    /\ UNCHANGED storeVars
    /\ IF isRunning(logcatThread)
       THEN /\ logcatThread' = [logcatThread EXCEPT !.is_running = FALSE,
                                                    !.process = terminate(@)]
            /\ buttons' = [buttons EXCEPT !.start = TRUE, !.stop = FALSE, !.pause = FALSE]
            /\ mainThread' = "stop_wait"
       ELSE /\ UNCHANGED logcatThread
            /\ buttons' = [buttons EXCEPT !.start = TRUE, !.stop = FALSE, !.pause = FALSE,
                                          !.pause_text = "Pause"]
            /\ mainThread' = "idle"

\* LogTable._stop_logcat up to its return, or up to logcat_thread.wait() when
\* the thread is running: the timer is stopped and the start time forgotten
\* before the flush; "self.process" is still None before Popen has returned
_stop_logcat ==
    /\ logCollectionStartTime' = "None"
    /\ stopFlushed' = Len(pendingLogs)
    /\ IF pendingLogs # <<>>
       THEN _process_pending_logs(pendingLogs, "None", FALSE)
       ELSE /\ pendingLogs' = pendingLogs
            /\ updateTimer' = FALSE
            /\ UNCHANGED storeVars
    /\ IF isRunning(logcatThread)
       THEN /\ logcatThread' = [logcatThread EXCEPT !.is_running = FALSE,
                                                    !.process = terminate(@)]
            /\ buttons' = [buttons EXCEPT !.start = TRUE, !.stop = FALSE, !.pause = FALSE]
            /\ mainThread' = "stop_wait"
       ELSE /\ UNCHANGED logcatThread
            /\ buttons' = [buttons EXCEPT !.start = TRUE, !.stop = FALSE, !.pause = FALSE,
                                          !.pause_text = "Pause"]
            /\ mainThread' = "idle"

\* stop_btn.clicked -> _stop_logcat
StopLogcat ==
    /\ mainThread = "idle"
    /\ buttons.stop
    /\ _stop_logcat
    /\ UNCHANGED <<bufferVars, loadVars, queryVars, warningsShown, logcatStarts, coreVars>>

\* logcat_thread.wait() returns once run() has, and _stop_logcat goes on to
\* its end
StopLogcatReturn ==
    /\ mainThread = "stop_wait"
    /\ ~isRunning(logcatThread)
    /\ mainThread' = "idle"
    /\ buttons' = [buttons EXCEPT !.pause_text = "Pause"]
    /\ UNCHANGED <<storeVars, bufferVars, loadVars, queryVars, logcatThread, pendingLogs,
                   updateTimer, logCollectionStartTime, warningsShown, logcatStarts, stopFlushed, coreVars>>

\* LogTable._pause_logcat: pause_btn's text says which way to go
PauseLogcat ==
    /\ mainThread = "idle"
    /\ buttons.pause
    /\ IF ~isRunning(logcatThread)
       THEN UNCHANGED <<logcatThread, buttons>>
       ELSE IF buttons.pause_text = "Pause"
       THEN /\ logcatThread' = [logcatThread EXCEPT !.is_paused = TRUE]
            /\ buttons' = [buttons EXCEPT !.pause_text = "Resume"]
       ELSE /\ logcatThread' = [logcatThread EXCEPT !.is_paused = FALSE, !.resumed = TRUE]
            /\ buttons' = [buttons EXCEPT !.pause_text = "Pause"]
    /\ UNCHANGED <<storeVars, bufferVars, loadVars, queryVars, pendingLogs, updateTimer,
                   logCollectionStartTime, mainThread, warningsShown, logcatStarts, stopFlushed, coreVars>>

\* LogTable._on_logcat_error, the slot of LogcatThread.error_occurred, up to
\* the modal QMessageBox.warning; queued signals and the timer are served
\* while the box is open, the buttons are not
OnLogcatError ==
    /\ mainThread = "idle"
    /\ mainQueue # <<>>
    /\ Head(mainQueue).sig = "error_occurred"
    /\ mainQueue' = Tail(mainQueue)
    /\ warningsShown' = warningsShown + 1
    /\ mainThread' = "warning"
    /\ UNCHANGED <<storeVars, bufferVars, activeFilters, pendingFileLogs, fileLoadThread,
                   prepareThreads, parserMode, loadsStarted, queryVars, logcatThread,
                   pendingLogs, updateTimer, logCollectionStartTime, buttons,
                   logcatStarts, stopFlushed, coreVars>>

\* the box is closed and _on_logcat_error goes on: self._stop_logcat()
OnLogcatErrorStop ==
    /\ mainThread = "warning"
    /\ _stop_logcat
    /\ UNCHANGED <<bufferVars, loadVars, queryVars, warningsShown, logcatStarts, coreVars>>

\* "self.logcat_thread.finished.connect(lambda: self.start_btn.setEnabled(True))"
OnLogcatFinished ==
    /\ mainThread \in {"idle", "warning"}
    /\ mainQueue # <<>>
    /\ Head(mainQueue).sig = "finished"
    /\ mainQueue' = Tail(mainQueue)
    /\ buttons' = [buttons EXCEPT !.start = TRUE]
    /\ UNCHANGED <<storeVars, bufferVars, activeFilters, pendingFileLogs, fileLoadThread,
                   prepareThreads, parserMode, loadsStarted, queryVars, logcatThread,
                   pendingLogs, updateTimer, logCollectionStartTime, mainThread,
                   warningsShown, logcatStarts, stopFlushed, coreVars>>

\* LogTable._clear_all_filters
ClearAllFilters ==
    /\ mainThread = "idle"
    /\ activeFilters # <<>>
    /\ activeFilters' = <<>>
    /\ UNCHANGED <<storeVars, bufferVars, pendingFileLogs, fileLoadThread, prepareThreads,
                   mainQueue, parserMode, loadsStarted, queryVars, liveVars, coreVars>>


-----------------------------------------------------------------------------
(* Spec: every sequence of store operations *)

AddLogs == \E logs \in Batches :
    /\ Len(allLogs) + Len(logs) <= MaxLogs
    /\ add_logs(logs)
    /\ UNCHANGED <<loadVars, bufferVars, queryVars, liveVars, coreVars>>

SetFilters == \E fs \in StoreRuleLists :
    /\ set_filters(fs)
    /\ UNCHANGED <<loadVars, bufferVars, queryVars, liveVars, coreVars>>

Clear ==
    /\ clear
    /\ UNCHANGED <<loadVars, bufferVars, queryVars, liveVars, coreVars>>

\* set_prepared_data fed with the output of the worker-side pass
\* set_filters with rules on pid and tid and rules that do not compile
SetFieldFilters == \E fs \in FieldRuleLists :
    /\ set_filters(fs)
    /\ UNCHANGED <<loadVars, bufferVars, queryVars, liveVars, coreVars>>

SetPreparedData == \E logs \in Files, fs \in StoreRuleLists :
    LET prepared == compute_filtered_indices_and_matches(logs, fs)
    IN  /\ set_prepared_data(logs, prepared[1], prepared[2])
        /\ UNCHANGED <<loadVars, bufferVars, queryVars, liveVars, coreVars>>

Init == StoreInit /\ TableInit /\ parserMode = "streaming"

Next == AddLogs \/ SetFilters \/ Clear \/ SetPreparedData

Spec == Init /\ [][Next]_vars

\* SpecAppend: a fixed rule set (installed by set_filters on the empty store)
\* and appends only
InitAppend ==
    /\ allLogs = <<>>
    /\ filteredIndices = <<>>
    /\ matchedFilters = <<>>
    /\ filters \in RuleLists
    /\ TableInit /\ parserMode = "streaming"

NextAppend == AddLogs

SpecAppend == InitAppend /\ [][NextAppend]_vars

\* SpecBuffer: a LogBuffer, its add and clear calls and its queries
InitBuffer == StoreInit /\ TableInit /\ parserMode = "streaming"

NextBuffer ==
    \/ AddToBuffer
    \/ BufferClear
    \/ GetRecent
    \/ GetErrorLogs
    \/ GetContextAroundError

SpecBuffer == InitBuffer /\ [][NextBuffer]_vars

\* SpecLoad: the bulk load of LogTable, its two worker threads and the slots
\* of the store-owning thread
InitLoad == StoreInit /\ TableInit

NextLoad ==
    \/ LoadLogcatFile
    \/ FileLoadCancel
    \/ FileLoadChunk
    \/ FileLoadComplete
    \/ FileLoadError
    \/ FileLoadReturn
    \/ OnFileLogBatchParsed
    \/ OnFileLoadComplete
    \/ PrepareModelRun
    \/ OnPreparedData
    \/ OnFileLoadError
    \/ AddFilterRule
    \/ ClearAllLogs

SpecLoad == InitLoad /\ [][NextLoad]_vars

\* SpecLoad with the scheduling a running program provides: a started
\* QThread runs to the end of run(), and the event loop of the GUI thread
\* delivers every queued signal; what the user does is not forced
FairLoad ==
    /\ WF_vars(FileLoadChunk)
    /\ WF_vars(FileLoadComplete)
    /\ WF_vars(FileLoadError)
    /\ WF_vars(FileLoadReturn)
    /\ WF_vars(PrepareModelRun)
    /\ WF_vars(OnFileLogBatchParsed)
    /\ WF_vars(OnFileLoadComplete)
    /\ WF_vars(OnPreparedData)
    /\ WF_vars(OnFileLoadError)

SpecLoadFair == InitLoad /\ [][NextLoad]_vars /\ FairLoad

(* SpecLive: live collection without the native parser: the process and the
   collector thread run, the signals they queue are served, and the user
   starts, stops, pauses and clears in between *)
InitLive == StoreInit /\ TableInit /\ parserMode = "python"

NextLive ==
    \/ StartLogcat
    \/ WarmupElapses
    \/ CollectBegin
    \/ CollectSpawn
    \/ CollectSpawnFails
    \/ ProcessWrites
    \/ ProcessDies
    \/ CollectLine
    \/ CollectEOF
    \/ OnLogReceived
    \/ TimerTick
    \/ StopLogcat
    \/ StopLogcatReturn
    \/ PauseLogcat
    \/ OnLogcatError
    \/ OnLogcatErrorStop
    \/ OnLogcatFinished
    \/ ClearAllLogs

SpecLive == InitLive /\ [][NextLive]_vars

(* SpecLiveEdit: SpecLive with the user also editing the rule list *)
NextLiveEdit == NextLive \/ AddFilterRule \/ ClearAllFilters

SpecLiveEdit == InitLive /\ [][NextLiveEdit]_vars

(* SpecRules: the store under rule lists on the pid and tid fields and rule
   lists with keywords that are not regular expressions *)
InitRules == StoreInit /\ TableInit /\ parserMode = "streaming"

NextRules == AddLogs \/ SetFieldFilters

SpecRules == InitRules /\ [][NextRules]_vars

(* SpecDetector: an ErrorDetector, its callers adding patterns, calling
   detect and setting or removing the callback *)
InitDetector == StoreInit /\ TableInit /\ parserMode = "python"

NextDetector == AddPattern \/ Detect \/ SetOnErrorDetected

SpecDetector == InitDetector /\ [][NextDetector]_vars

\* SpecCallback: the two detection entry points on the default registry,
\* with the callback registered or not
NextCallback == Detect \/ DetectInText \/ SetOnErrorDetected

SpecCallback == InitDetector /\ [][NextCallback]_vars

\* the parser alone: constructions and parse calls
InitParse == StoreInit /\ TableInit /\ parserMode = "python"

NextParse == NewLogParser \/ Parse

SpecParse == InitParse /\ [][NextParse]_vars

-----------------------------------------------------------------------------
(* Properties *)

StrictlyIncreasing(s) == \A i \in 1..(Len(s) - 1) : s[i] < s[i + 1]
IsPrefix(s, t) == Len(s) <= Len(t) /\ SubSeq(t, 1, Len(s)) = s

IsEnabled(f) == Get(f, "enabled", TRUE)
IsShow(f) == Get(f, "type", "Show") = "Show"
IsIgnore(f) == Get(f, "type", "Show") = "Ignore"

\* the positions of the rule list fs holding an enabled Show (Ignore) rule
\* that matches log
ShowHits(fs, log) ==
    {j \in 1..Len(fs) : IsEnabled(fs[j]) /\ IsShow(fs[j]) /\ Model_match_filter(fs[j], log)}
IgnoreHits(fs, log) ==
    {j \in 1..Len(fs) : IsEnabled(fs[j]) /\ IsIgnore(fs[j]) /\ Model_match_filter(fs[j], log)}
HasEnabledShow(fs) == \E j \in 1..Len(fs) : IsEnabled(fs[j]) /\ IsShow(fs[j])

\* record i (0-based) of all_records is visible / the rule recorded for it
Included(i) == \E k \in 1..Len(filteredIndices) : filteredIndices[k] = i
MatchedAt(i) == matchedFilters[CHOOSE k \in 1..Len(filteredIndices) : filteredIndices[k] = i]
Stored == 0..(Len(allLogs) - 1)

\* C1: in every state reached by add_logs, set_filters, clear and
\* set_prepared_data (fed by the worker-side pass), filtered_indices is strictly
\* increasing and matched_filters has the length of filtered_indices.
C1_IndicesIncreasingAndParallel ==
    /\ StrictlyIncreasing(filteredIndices)
    /\ Len(matchedFilters) = Len(filteredIndices)

\* a view with a gap, extended by a later batch
C1_Witness ==
    /\ Len(allLogs) >= 3
    /\ Len(filteredIndices) >= 2
    /\ Len(filteredIndices) < Len(allLogs)
    /\ filteredIndices[Len(filteredIndices)] = Len(allLogs) - 1

\* C2: under a fixed rule set, whatever the split of the records into add_logs
\* batches, filtered_indices and matched_filters equal the result of one
\* rebuild (_reapply_filters) over the accumulated all_records.
C2_AppendEqualsRebuild ==
    <<filteredIndices, matchedFilters>> = reapply_filters(filters, allLogs, 0)

\* several records appended, some excluded, some styled by a Show rule
C2_Witness ==
    /\ Len(allLogs) >= 3
    /\ 0 < Len(filteredIndices)
    /\ Len(filteredIndices) < Len(allLogs)
    /\ ~Included(0)
    /\ \E k \in 1..Len(matchedFilters) : matchedFilters[k] # None

\* C3: a record matched by an enabled Ignore rule is excluded, whichever Show
\* rules match it too and wherever the Ignore rule stands in the list; both
\* implementations of evaluate return False for it.
C3_IgnorePrecedence ==
    \A i \in Stored :
        IgnoreHits(filters, allLogs[i + 1]) # {} =>
            /\ ~Included(i)
            /\ Model_evaluate_log(filters, allLogs[i + 1]) = False
            /\ evaluate_log(filters, allLogs[i + 1]) = False

\* a stored record matched by a Show rule and by an Ignore rule that stands
\* after it in the list
C3_Witness ==
    \E i \in Stored :
        /\ ShowHits(filters, allLogs[i + 1]) # {}
        /\ \E j \in IgnoreHits(filters, allLogs[i + 1]) :
               j > Min(ShowHits(filters, allLogs[i + 1]))
        /\ ~Included(i)

\* C4: when no enabled Ignore rule matches a record and an enabled Show rule
\* exists, the record is included iff some enabled Show rule matches it, the
\* rule recorded is the first matching enabled Show rule in list order, and a
\* disabled rule is never recorded.
C4_FirstShowRecorded ==
    /\ \A i \in Stored :
        LET log == allLogs[i + 1]
        IN  (IgnoreHits(filters, log) = {} /\ HasEnabledShow(filters)) =>
                /\ Included(i) <=> ShowHits(filters, log) # {}
                /\ Included(i) => MatchedAt(i) = Dict(filters[Min(ShowHits(filters, log))])
    /\ \A k \in 1..Len(matchedFilters) :
        matchedFilters[k] # None => IsEnabled(matchedFilters[k].rule)

\* a record matched by two different enabled Show rules, and a record whose
\* first matching Show rule is not the first Show rule of the list
C4_Witness ==
    /\ \E i \in Stored :
        LET hits == ShowHits(filters, allLogs[i + 1])
        IN  /\ Cardinality(hits) >= 2
            /\ \E j \in hits : filters[j] # filters[Min(hits)]
            /\ Included(i)
    /\ \E i \in Stored :
        /\ Included(i)
        /\ \E j \in 1..Len(filters) :
            /\ IsEnabled(filters[j]) /\ IsShow(filters[j])
            /\ j \notin ShowHits(filters, allLogs[i + 1])
            /\ \E j2 \in ShowHits(filters, allLogs[i + 1]) : j2 > j

\* C5: with no rule, only disabled rules, or only non-matching enabled Ignore
\* rules, every record is included and no styling rule is recorded.
C5_NoShowRuleIncludesUnstyled ==
    \A i \in Stored :
        (~HasEnabledShow(filters) /\ IgnoreHits(filters, allLogs[i + 1]) = {}) =>
            /\ Included(i)
            /\ MatchedAt(i) = None

\* a non-empty rule list of disabled rules only, one of which would match a
\* stored record if it were enabled
C5_Witness ==
    /\ filters # <<>>
    /\ \A j \in 1..Len(filters) : ~IsEnabled(filters[j])
    /\ \E i \in Stored, j \in 1..Len(filters) :
        /\ Model_match_filter(filters[j], allLogs[i + 1])
        /\ Included(i)

\* the constraint of one configured field, stated separately
FieldsOf(f) == Get(f, "fields", <<>>)
LevelHolds(f, log) == Upper(log[2]) = Upper(FieldsOf(f)["level"])
PidHolds(f, log) == PidPattern(log[5]) = FieldsOf(f)["pid"]
TidHolds(f, log) == TidPattern(log[5]) = FieldsOf(f)["tid"]
TagHolds(f, log) ==
    IF Get(FieldsOf(f), "tag_case_sensitive", FALSE)
    THEN In(FieldsOf(f)["tag"], log[4])
    ELSE In(Lower(FieldsOf(f)["tag"]), Lower(log[4]))
KeywordHolds(f, log) ==
    LET fields == FieldsOf(f)
        folded == ~Get(fields, "keyword_case_sensitive", FALSE)
    IN  IF Get(fields, "keyword_regex", FALSE)
        THEN ReCompiles(fields["keyword"]) /\ ReSearch(fields["keyword"], folded, log[5])
        ELSE IF folded THEN In(Lower(fields["keyword"]), Lower(log[5]))
             ELSE In(fields["keyword"], log[5])
Configured(f) ==
    {k \in {"level", "pid", "tid", "tag", "keyword"} : Truthy(FieldsOf(f), k)}

\* C6: _match_filter is the conjunction of the constraints of the configured
\* fields; an absent or empty field imposes none, and a rule with no
\* configured field matches every record.
C6_MatchIsConjunction ==
    \A j \in 1..Len(filters), i \in Stored :
        LET f == filters[j]
            log == allLogs[i + 1]
        IN  /\ Model_match_filter(f, log) <=>
                /\ "level" \in Configured(f) => LevelHolds(f, log)
                /\ "pid" \in Configured(f) => PidHolds(f, log)
                /\ "tid" \in Configured(f) => TidHolds(f, log)
                /\ "tag" \in Configured(f) => TagHolds(f, log)
                /\ "keyword" \in Configured(f) => KeywordHolds(f, log)
            /\ Configured(f) = {} => Model_match_filter(f, log)

\* a rule with two configured fields of which exactly one holds, and a rule
\* without configured fields, both applied to stored records
C6_Witness ==
    /\ \E j \in 1..Len(filters), i \in Stored :
        /\ Configured(filters[j]) = {"level", "tag"}
        /\ TagHolds(filters[j], allLogs[i + 1])
        /\ ~LevelHolds(filters[j], allLogs[i + 1])
        /\ ~Model_match_filter(filters[j], allLogs[i + 1])
    /\ \E j \in 1..Len(filters) : Configured(filters[j]) = {} /\ Stored # {}

\* C7: add_logs and set_filters never remove, reorder or modify entries of
\* all_records (a prefix is kept by add_logs, the whole by set_filters), and
\* add_logs only extends filtered_indices and matched_filters.
C7_AppendOnly ==
    [][/\ AddLogs => /\ IsPrefix(allLogs, allLogs')
                     /\ IsPrefix(filteredIndices, filteredIndices')
                     /\ IsPrefix(matchedFilters, matchedFilters')
       /\ SetFilters => allLogs' = allLogs]_vars

\* three records of which the first two were stored before the last batch
C7_Witness ==
    /\ Len(allLogs) >= 3
    /\ SubSeq(allLogs, 1, 2) = FileB
    /\ Len(filteredIndices) >= 2

\* C8: a set_prepared_data step replaces the three sequences together: the
\* store then holds exactly the installed records and the indices and matched
\* rules computed for them by the one worker-side pass, nothing of the
\* previous content.
C8_InstallReplacesAll ==
    [][SetPreparedData =>
        \E logs \in Files, fs \in StoreRuleLists :
            /\ allLogs' = logs
            /\ <<filteredIndices', matchedFilters'>> =
                   compute_filtered_indices_and_matches(logs, fs)]_vars

\* an installed file whose view was computed with another rule list than the
\* store's (only an install produces it)
C8_Witness ==
    /\ allLogs \in Files
    /\ <<filteredIndices, matchedFilters>> # reapply_filters(filters, allLogs, 0)
    /\ Len(filteredIndices) < Len(allLogs)

\* C9: every entry of filtered_indices is a valid index into all_records;
\* get_log_at returns all_records[filtered_indices[row]] for a row in range and
\* None outside; filtered_count <= total_count.
C9_RandomAccess ==
    /\ \A k \in 1..Len(filteredIndices) :
        filteredIndices[k] \in 0..(Len(allLogs) - 1)
    /\ \A row \in -1..(Len(filteredIndices) + 1) :
        IF 0 <= row /\ row < get_filtered_count
        THEN /\ get_log_at(row) \in LogPool
             /\ get_log_at(row) = allLogs[filteredIndices[row + 1] + 1]
        ELSE get_log_at(row) = None
    /\ get_filtered_count = Len(filteredIndices)
    /\ get_total_count = Len(allLogs)
    /\ get_filtered_count <= get_total_count

\* a filtered view that skips stored records, read at its last row
C9_Witness ==
    /\ Len(filteredIndices) >= 2
    /\ filteredIndices[1] > 0
    /\ get_log_at(Len(filteredIndices) - 1) = allLogs[Len(allLogs)]

\* a bulk load is in flight: its FileLoadThread runs, one of its signals
\* waits for its slot, or its PrepareModelThread has not yet emitted
LoadInFlight ==
    \/ isRunning(fileLoadThread)
    \/ mainQueue # <<>>
    \/ prepareThreads # <<>>

\* a step in which load_logcat_file accepts a request
LoadStarted ==
    /\ fileLoadThread.state # "running"
    /\ fileLoadThread'.state = "running"

\* C10: while a bulk load is in flight (from its start until its prepared
\* data is installed or it fails, the filter-preparation stage included), a
\* load request is rejected: no new load starts and the records accumulated
\* for the load in flight are kept.
C10_OneLoadInFlight ==
    [][LoadInFlight => /\ ~LoadStarted
                       /\ (LoadLogcatFile => UNCHANGED pendingFileLogs)]_vars

\* the last n items of s
LastN(s, n) == SubSeq(s, Len(s) - n + 1, Len(s))

NonEmptyRecord(log_data) == DOMAIN log_data # {}

\* the level of the record is E, F or A
IsErrorLevel(log_data) ==
    /\ "level" \in DOMAIN log_data
    /\ log_data.level \in {<<"E">>, <<"F">>, <<"A">>}

\* the non-empty records added since the last clear, and the error-level ones
Arrived == SelectSeq(addCalls, NonEmptyRecord)
ArrivedErrors == SelectSeq(addCalls, IsErrorLevel)

\* C16: after capacity + k non-empty records were added (k >= 0), main holds
\* exactly capacity records, the most recent ones in arrival order; in every
\* state len(main) <= capacity and len(errors_only) <= its own capacity.
C16_BufferEviction ==
    /\ Len(buffer) <= BufferMaxSize
    /\ Len(errorLogs) <= ErrorLogsMaxLen
    /\ buffer = LastN(Arrived, Min({BufferMaxSize, Len(Arrived)}))
    /\ Len(Arrived) >= BufferMaxSize => Len(buffer) = BufferMaxSize

\* capacity + 1 non-empty records were added, the oldest one is gone
C16_Witness ==
    /\ Len(Arrived) = BufferMaxSize + 1
    /\ Len(buffer) = BufferMaxSize
    /\ buffer[1] = Arrived[2]
    /\ Arrived[1] # Arrived[2]

C18_RecentIsLastN ==
    [][\A count \in 0..MaxCount :
         /\ GetRecentCall(count) =>
              /\ queryResult'.value = LastN(buffer, Min({count, Len(buffer)}))
              /\ UNCHANGED bufferVars
         /\ GetErrorLogsCall(count) =>
              /\ queryResult'.value = LastN(errorLogs, Min({count, Len(errorLogs)}))
              /\ UNCHANGED bufferVars]_vars

\* the position in main that get_context_around_error locates for the
\* error record: the first record equal to it or carrying its timestamp
Locates(log, error_log) ==
    \/ log = error_log
    \/ /\ "timestamp" \in DOMAIN error_log
       /\ "timestamp" \in DOMAIN log
       /\ log.timestamp = error_log.timestamp

LocatedAt(error_log) ==
    Min({i \in 1..Len(buffer) : Locates(buffer[i], error_log)})

\* C19: get_context_around_error returns a contiguous forward window of main
\* that starts at the located record and holds at most 2 * context_lines
\* further records: never more than 2 * context_lines + 1 records, none of
\* them before the match point.
C19_ForwardWindow ==
    [][\A error_index \in 0..(ErrorLogsMaxLen - 1), context_lines \in 0..MaxContext :
         (/\ GetContextCall(error_index, context_lines)
          /\ queryResult'.value # <<>>) =>
            LET value == queryResult'.value
                from == LocatedAt(errorLogs[error_index + 1])
            IN  /\ Len(value) <= 2 * context_lines + 1
                /\ from + Len(value) - 1 <= Len(buffer)
                /\ value = SubSeq(buffer, from, from + Len(value) - 1)]_vars

\* C20: get_context_around_error returns the empty list and leaves the buffer
\* as it is when error_index is outside errors_only and when no record of
\* main equals the error record or carries its timestamp.
C20_NotLocatedIsEmpty ==
    [][\A error_index \in {Get(queryResult', "error_index", 0)},
          context_lines \in {Get(queryResult', "context_lines", 0)} :
         (/\ queryResult'.op = "get_context_around_error"
          /\ GetContextCall(error_index, context_lines)) =>
            /\ UNCHANGED bufferVars
            /\ (\/ error_index < 0
                \/ error_index >= Len(errorLogs)
                \/ \A i \in 1..Len(buffer) :
                       ~Locates(buffer[i], errorLogs[error_index + 1]))
               => queryResult'.value = <<>>]_vars

\* the error record asked for was evicted from main and is still in
\* errors_only: the query returned the empty list
C20_Witness ==
    /\ queryResult.op = "get_context_around_error"
    /\ queryResult.error_index \in 0..(Len(errorLogs) - 1)
    /\ buffer # <<>>
    /\ \A i \in 1..Len(buffer) :
           ~Locates(buffer[i], errorLogs[queryResult.error_index + 1])
    /\ queryResult.value = <<>>

\* the load of file_load_thread was cancelled before load_complete was emitted
CancelledLoad ==
    /\ fileLoadThread.should_cancel
    /\ ~fileLoadThread.completed

\* the step appends a log_batch_parsed or a load_complete signal to the queue
LoadSignalEmitted ==
    /\ Len(mainQueue') > Len(mainQueue)
    /\ mainQueue'[Len(mainQueue')].sig \in {"log_batch_parsed", "load_complete"}

\* the step installs the prepared data of the load of file_load_thread
InstallOfThisLoad ==
    /\ OnPreparedData
    /\ Head(mainQueue).load = fileLoadThread.load

\* C11: once a bulk load is cancelled before it completes, its load task
\* emits no further batch and never load_complete, set_prepared_data is never
\* called for that load, and the store keeps what it held (only a clear or
\* the install of another load changes it): no partial swap.
C11_CancelledLoadNeverInstalls ==
    [][(CancelledLoad /\ ~LoadStarted) =>
          /\ CancelledLoad'
          /\ ~LoadSignalEmitted
          /\ ~InstallOfThisLoad
          /\ (storeVars' # storeVars => (ClearAllLogs \/ OnPreparedData))
          /\ \A i \in 1..Len(mainQueue') :
                 mainQueue'[i].sig \in {"load_complete", "prepared_data"}
                     => mainQueue'[i].load # fileLoadThread.load
          /\ \A i \in 1..Len(prepareThreads') :
                 prepareThreads'[i].load # fileLoadThread.load]_vars

\* a load cancelled after its first batch: the batch reached
\* pending_file_logs, the thread has returned without load_complete, nothing
\* of the load is in flight any more, and the store is still empty
C11_Witness ==
    /\ CancelledLoad
    /\ fileLoadThread.state = "finished"
    /\ fileLoadThread.chunks # <<>>
    /\ pendingFileLogs # <<>>
    /\ mainQueue = <<>>
    /\ prepareThreads = <<>>
    /\ allLogs = <<>>

\* C12: _stop_logcat, called from the stop button or after a logcat error,
\* appends every record that was pending when it was called to the store and
\* leaves the pending queue empty; nothing is queued or stored while it waits
\* for the collector thread, so this still holds when it returns.
C12_StopFlushesPending ==
    [][/\ (StopLogcat \/ OnLogcatErrorStop) =>
              /\ allLogs' = allLogs \o pendingLogs
              /\ pendingLogs' = <<>>
       /\ mainThread = "stop_wait" =>
              /\ pendingLogs' = <<>>
              /\ allLogs' = allLogs]_vars

\* _stop_logcat has returned after finding records pending: they are in the
\* store and the queue is empty
C12_Witness ==
    /\ mainThread = "idle"
    /\ ~buttons.stop
    /\ stopFlushed >= 1
    /\ pendingLogs = <<>>
    /\ Len(allLogs) >= stopFlushed

\* the collector reads a line (it has not been told to stop)
ReadsLine == CollectLine /\ logcatThread.is_running

\* C13: a line the collector reads while is_paused leaves the pipe and is
\* not handed on (no log_received is queued, and the collector keeps the
\* line nowhere, so it is never handed on later); _pause_logcat changes
\* neither is_running nor the process nor where the thread stands; a line
\* read while not paused (so every line read after resume) that strip() does
\* not empty is handed on as log_received.
C13_PauseDiscardsResumeDelivers ==
    [][/\ (ReadsLine /\ logcatThread.is_paused) =>
              /\ mainQueue' = mainQueue
              /\ logcatThread'.stdout = Tail(logcatThread.stdout)
       /\ PauseLogcat =>
              /\ logcatThread'.is_running = logcatThread.is_running
              /\ logcatThread'.process = logcatThread.process
              /\ logcatThread'.state = logcatThread.state
              /\ logcatThread'.stdout = logcatThread.stdout
       /\ (ReadsLine /\ ~logcatThread.is_paused
                     /\ Strip(Head(logcatThread.stdout)) # <<>>) =>
              /\ Len(mainQueue') = Len(mainQueue) + 1
              /\ mainQueue'[Len(mainQueue')].sig = "log_received"
              /\ mainQueue'[Len(mainQueue')].line = Strip(Head(logcatThread.stdout))]_vars

\* a line read after resume() was called has been handed on and waits in the
\* queue, while the collector is reading, running and not paused
C13_Witness ==
    /\ logcatThread.state = "reading"
    /\ logcatThread.is_running
    /\ ~logcatThread.is_paused
    /\ logcatThread.process = "alive"
    /\ \E i \in 1..Len(mainQueue) :
           mainQueue[i].sig = "log_received" /\ mainQueue[i].resumed

\* C14: a step that appends a batch to the store evaluates the batch against
\* the rule set as the table holds it at that moment (the checked rows of
\* active_filters), and leaves the rows already there as they were.
C14_NextBatchUsesChangedRules ==
    [][Len(allLogs') > Len(allLogs) =>
          LET logs == SubSeq(allLogs', Len(allLogs) + 1, Len(allLogs'))
              new == NewFiltered(enabled_filters, logs, Len(allLogs), 0)
          IN  /\ allLogs' = allLogs \o logs
              /\ filteredIndices' = filteredIndices \o new[1]
              /\ matchedFilters' = matchedFilters \o new[2]]_vars

\* C15: when the collector thread has ended because Popen raised or because
\* the adb process ended on its own while the collector was running, an
\* error_occurred signal has been queued for, or shown as a warning by, the
\* table.
C15_ProducerFailureSurfaced ==
    (/\ logcatThread.state = "finished"
     /\ logcatThread.is_running
     /\ logcatThread.process \in {"None", "exited"})
        => \/ warningsShown >= 1
           \/ \E i \in 1..Len(mainQueue) : mainQueue[i].sig = "error_occurred"

\* the patterns among ps that match the message or the tag of log_data
MatchingPatterns(ps, log_data) ==
    {k \in 1..Len(ps) :
        \/ ErrorPattern_match(ps[k], Get(log_data, "message", <<>>)) # None
        \/ ErrorPattern_match(ps[k], Get(log_data, "tag", <<>>)) # None}

\* C21: detect is level-gated: for a record whose level is not E, F or A it
\* returns None and the registered callback is not called, whatever the message
\* and the tag contain and whatever patterns are registered.
C21_LevelGated ==
    [][(/\ queryResult'.op = "detect"
        /\ Get(queryResult'.log_data, "level", <<>>) \notin ErrorLevels) =>
            /\ queryResult'.value = None
            /\ callbackLog' = callbackLog]_vars

\* a warning whose tag and message match default patterns was given to detect
\* while a callback was registered: nothing was detected
C21_Witness ==
    /\ queryResult.op = "detect"
    /\ queryResult.log_data # <<>>
    /\ Get(queryResult.log_data, "level", <<>>) = <<"W">>
    /\ MatchingPatterns(patterns, queryResult.log_data) # {}
    /\ onErrorDetected
    /\ queryResult.value = None
    /\ callbackLog = <<>>

\* C22: for an error-level record detect reports the pattern with the lowest
\* registration index among the patterns that match the message or the tag,
\* also when that pattern matches only the tag and a later one the message;
\* it reports nothing only when no pattern matches.  (The patterns registered
\* when detect was called are the first "registered" ones of the list.)
C22_FirstRegisteredWins ==
    (/\ queryResult.op = "detect"
     /\ Get(queryResult.log_data, "level", <<>>) \in ErrorLevels) =>
        LET registered == SubSeq(patterns, 1, queryResult.registered)
            hits == MatchingPatterns(registered, queryResult.log_data)
            value == queryResult.value
        IN  IF hits = {}
            THEN value = None
            ELSE /\ value # None
                 /\ value.pattern = registered[Min(hits)]
                 /\ value.severity = registered[Min(hits)].severity
                 /\ value.log = queryResult.log_data

\* detect reported a pattern that matches only the tag of the record while a
\* pattern registered after it matches the message
C22_Witness ==
    /\ queryResult.op = "detect"
    /\ queryResult.value # None
    /\ queryResult.value.match.text = "tag"
    /\ \E k \in 1..Len(patterns) :
           /\ ErrorPattern_match(patterns[k], queryResult.log_data.message) # None
           /\ \E j \in 1..(k - 1) : patterns[j] = queryResult.value.pattern

\* C23: the registry is append-only: a step leaves the list as it is or
\* appends one pattern at its end, the default patterns keep their positions,
\* adding a pattern re-scans nothing (the result already returned and the
\* detections already handed to the callback stay as they are), and a detect
\* call reports only a pattern registered when it is called.
C23_RegistryAppendOnly ==
    [][/\ \/ patterns' = patterns
          \/ \E pattern \in CustomPatterns : patterns' = Append(patterns, pattern)
       /\ SubSeq(patterns', 1, Len(default_patterns)) = default_patterns
       /\ patterns' # patterns =>
            /\ queryResult' = queryResult
            /\ callbackLog' = callbackLog
       /\ (queryResult' # queryResult /\ queryResult'.value # None) =>
            \E k \in 1..Len(patterns) : queryResult'.value.pattern = patterns[k]]_vars

\* a record was given to detect and nothing was detected; a pattern that
\* matches the record was added afterwards and the result stands
C23_Witness ==
    /\ queryResult.op = "detect"
    /\ queryResult.registered = Len(default_patterns)
    /\ queryResult.value = None
    /\ Len(patterns) > Len(default_patterns)
    /\ detect(patterns, queryResult.log_data) # None

\* the value of the first token key=digits or key:digits of message (key in
\* either case), "-" when message has no such token
HasTokenAt(key, message, i) ==
    /\ i + Len(key) + 1 <= Len(message)
    /\ \A j \in 1..Len(key) : LowerChar(message[i + j - 1]) = key[j]
    /\ message[i + Len(key)] \in {"=", ":"}
    /\ message[i + Len(key) + 1] \in Digits
TokenValue(key, message) ==
    LET at == {i \in 1..Len(message) : HasTokenAt(key, message, i)}
    IN  IF at = {}
        THEN <<"-">>
        ELSE LET from == Min(at) + Len(key) + 1
                 run == {n \in 1..(Len(message) - from + 1) :
                            \A j \in from..(from + n - 1) : message[j] \in Digits}
             IN  SubSeq(message, from, from + Max(run) - 1)

OnlyIdFields(f) == Configured(f) # {} /\ Configured(f) \subseteq {"pid", "tid"}
IdFieldsEqual(f, log) ==
    /\ "pid" \in Configured(f) => FieldsOf(f)["pid"] = TokenValue(<<"p", "i", "d">>, log[5])
    /\ "tid" \in Configured(f) => FieldsOf(f)["tid"] = TokenValue(<<"t", "i", "d">>, log[5])

\* C24: the pid (tid) field of a rule is compared by exact string equality
\* with the value of the pid (tid) token of the record's message, "-" when the
\* message has no such token: a visible record's Show rule agrees with the
\* tokens of its message, and a record is visible when a Show rule made of
\* pid and tid fields agrees with them and no Ignore rule is enabled.  A rule
\* with pid "99" so never matches a record without pid token.
C24_PidTidFromMessage ==
    \A i \in Stored :
        LET log == allLogs[i + 1]
        IN  /\ (Included(i) /\ MatchedAt(i) # None) => IdFieldsEqual(MatchedAt(i).rule, log)
            /\ (/\ \A j \in 1..Len(filters) : ~(IsEnabled(filters[j]) /\ IsIgnore(filters[j]))
                /\ \E j \in 1..Len(filters) :
                       /\ IsEnabled(filters[j]) /\ IsShow(filters[j])
                       /\ OnlyIdFields(filters[j])
                       /\ IdFieldsEqual(filters[j], log))
               => Included(i)
            /\ (/\ \A j \in 1..Len(filters) : OnlyIdFields(filters[j])
                /\ \A j \in 1..Len(filters) : ~IdFieldsEqual(filters[j], log)
                /\ filters # <<>>)
               => ~Included(i)

\* the rule list is the one rule pid "99"; a record whose message is
\* "pid=99 up" is visible and a record without pid token is not
C24_Witness ==
    /\ filters = <<ShowPid>>
    /\ \E i \in Stored : Included(i) /\ MatchedAt(i) = Dict(ShowPid)
    /\ \E i \in Stored :
           /\ TokenValue(<<"p", "i", "d">>, allLogs[i + 1][5]) = <<"-">>
           /\ ~Included(i)

\* a rule whose keyword is to be read as a regular expression and does not compile
InvalidRegexRule(f) ==
    /\ "keyword" \in Configured(f)
    /\ Get(FieldsOf(f), "keyword_regex", FALSE)
    /\ \E k \in 1..Len(FieldsOf(f)["keyword"]) : FieldsOf(f)["keyword"][k] = "("
WithoutInvalid(fs) == SelectSeq(fs, LAMBDA f : ~InvalidRegexRule(f))

\* C25: a rule whose keyword is an invalid regular expression matches no
\* record: no visible record carries it as its Show rule, a record is hidden
\* by the Ignore rules only if a valid one matches it, add_logs and
\* set_filters complete and leave filtered_indices strictly increasing, within
\* all_records and parallel to matched_filters; when such a rule is an Ignore
\* rule the view is the view of the list without it.
C25_InvalidRegexNeverMatches ==
    /\ Len(matchedFilters) = Len(filteredIndices)
    /\ StrictlyIncreasing(filteredIndices)
    /\ \A k \in 1..Len(filteredIndices) : filteredIndices[k] \in Stored
    /\ \A i \in Stored :
        LET log == allLogs[i + 1]
        IN  /\ (Included(i) /\ MatchedAt(i) # None) => ~InvalidRegexRule(MatchedAt(i).rule)
            /\ (/\ \A j \in 1..Len(filters) : IsShow(filters[j]) => InvalidRegexRule(filters[j])
                /\ \E j \in 1..Len(filters) : IsEnabled(filters[j]) /\ IsShow(filters[j]))
               => ~Included(i)
            /\ (/\ \A j \in 1..Len(filters) : IsIgnore(filters[j]) => InvalidRegexRule(filters[j])
                /\ \A j \in 1..Len(filters) : ~IsShow(filters[j]))
               => Included(i)
    /\ (\A j \in 1..Len(filters) : InvalidRegexRule(filters[j]) => IsIgnore(filters[j]))
       => filteredIndices = reapply_filters(WithoutInvalid(filters), allLogs, 0)[1]

\* an Ignore rule that does not compile stands before a Show rule: a record
\* the Show rule matches is visible
C25_Witness ==
    /\ filters = <<IgnoreBadRegex, ShowRegex>>
    /\ \E i \in Stored : Included(i) /\ MatchedAt(i) = Dict(ShowRegex)
    /\ \E i \in Stored : ~Included(i)

\* C26: when parse returns none for a received line, the handler of the line
\* leaves the store, the pending batch and its timer and both deques of the
\* LogBuffer as they were, calls the detector not at all, and raises nothing:
\* it takes the signal off the queue, queues none, shows no warning and the
\* main thread stays where it was.
C26_UnparsableLineDropped ==
    [][(/\ OnLogReceived
        /\ ParsedLine[Head(mainQueue).line] = None)
       => /\ UNCHANGED <<storeVars, pendingLogs, updateTimer, buffer, errorLogs>>
          /\ _parse_log_line(Head(mainQueue).line).detected = <<>>
          /\ mainQueue' = Tail(mainQueue)
          /\ UNCHANGED <<mainThread, warningsShown, logcatThread>>]_vars

\* the line "junk" is next to be handled, on an idle main thread, behind a
\* parsed line that waits in the pending batch and stands in the LogBuffer
C26_Witness ==
    /\ mainThread = "idle"
    /\ mainQueue # <<>>
    /\ Head(mainQueue).sig = "log_received"
    /\ Head(mainQueue).line = StrippedLine[LineJunk]
    /\ ParsedLine[Head(mainQueue).line] = None
    /\ Len(pendingLogs) = 1
    /\ Len(buffer) = 1
    /\ updateTimer

\* a parse call in which the native stage was tried and returned a record
NativeAnswered(q) ==
    Strip(q.line) # <<>> /\ q.self.use_rust /\ ~IsRaise(q.native) /\ ~Falsy(q.native)
\* a parse call in which the library stage was tried and got a dict
DelegateAnswered(q) ==
    /\ Strip(q.line) # <<>>
    /\ q.self.PARSER_AVAILABLE /\ q.self.format_type = "threadtime"
    /\ ~IsRaise(q.delegate.construct)
    /\ IsDict(q.delegate.answer)
    /\ q.delegate.api = "build_log_line" => threadtime_regex_matches(Strip(q.line))
WithoutNative(self) == [self EXCEPT !.use_rust = FALSE]
WithoutBackends(self) == [self EXCEPT !.use_rust = FALSE, !.PARSER_AVAILABLE = FALSE]

\* C27: parse never ends in an exception, whatever the native function and
\* the library do; a record of the native stage is the result; when the
\* native stage is absent, raises or returns nothing the result is the one of
\* a parser without it on the same line, which is the record built from the
\* library's dict when the library gives one; when that stage too is absent,
\* raises or returns no dict, the result is the one of the fallback alone.
C27_StagesInOrderNoFailurePropagates ==
    queryResult.op = "parse" =>
        LET q == queryResult
        IN  /\ ~IsRaise(q.value)
            /\ NativeAnswered(q) => q.value = q.native
            /\ ~NativeAnswered(q)
                   => q.value = parse(WithoutNative(q.self), q.line, q.native, q.delegate)
            /\ (~NativeAnswered(q) /\ DelegateAnswered(q))
                   => q.value = DelegateRecord(q.delegate.answer)
            /\ (~NativeAnswered(q) /\ ~DelegateAnswered(q))
                   => q.value = parse(WithoutBackends(q.self), q.line, q.native, q.delegate)

\* both optional stages were tried and raised, and the fallback parsed the line
C27_Witness ==
    /\ queryResult.op = "parse"
    /\ queryResult.self.use_rust /\ IsRaise(queryResult.native)
    /\ queryResult.self.PARSER_AVAILABLE /\ queryResult.self.format_type = "threadtime"
    /\ queryResult.delegate.construct = None /\ IsRaise(queryResult.delegate.answer)
    /\ queryResult.line = LineBracketed
    /\ queryResult.value # None
    /\ queryResult.value.pid = <<"1", "2">>

\* every backend that is there gives the fields of the canonical line
BackendsServeCanonical(q) ==
    /\ q.self.use_rust => q.native = CanonicalRecord
    /\ (q.self.PARSER_AVAILABLE /\ q.self.format_type = "threadtime")
           => (q.delegate.construct = None /\ q.delegate.answer = DelegateFull)

\* C28: the canonical threadtime line parses to its record (timestamp, level
\* E, pid 1234, tid 5678, tag ActivityManager, message FATAL EXCEPTION, display
\* Main) whichever backends are there, none included.
C28_CanonicalLineParses ==
    (/\ queryResult.op = "parse"
     /\ queryResult.line = LineCanonical
     /\ BackendsServeCanonical(queryResult))
    => queryResult.value = CanonicalRecord

\* s begins with MM-DD, white space, HH:MM:SS.mmm
BeginsWithTimestamp(s) ==
    \E t \in 6..(Len(s) - 12) :
        /\ s[1] \in Digits /\ s[2] \in Digits /\ s[3] = "-"
        /\ s[4] \in Digits /\ s[5] \in Digits
        /\ \A j \in 6..t : s[j] \in WhiteSpace
        /\ s[t + 1] \in Digits /\ s[t + 2] \in Digits /\ s[t + 3] = ":"
        /\ s[t + 4] \in Digits /\ s[t + 5] \in Digits /\ s[t + 6] = ":"
        /\ s[t + 7] \in Digits /\ s[t + 8] \in Digits /\ s[t + 9] = "."
        /\ s[t + 10] \in Digits /\ s[t + 11] \in Digits /\ s[t + 12] \in Digits

IdOk(v) == v = <<"-">> \/ (v # <<>> /\ \A j \in 1..Len(v) : v[j] \in Digits)

\* C30: every record parse returns has a level among V, D, I, W, E, F, A and
\* "-", and a pid and a tid that are each a string of digits or "-".
C30_RecordInvariant ==
    (queryResult.op = "parse" /\ queryResult.value # None)
    => /\ queryResult.value.level \in {<<c>> : c \in LevelLetters \cup {"-"}}
       /\ IdOk(queryResult.value.pid)
       /\ IdOk(queryResult.value.tid)

\* the tuple _parse_log_line makes of a parsed line
TupleOf(parsed_dict) ==
    <<parsed_dict.timestamp, parsed_dict.level, parsed_dict.display,
      parsed_dict.tag, parsed_dict.message>>

\* C31: all_records followed by the pending queue grows by the tuple of the
\* line in the step that handles a received line parse accepts, after the
\* dict of the line was added to the LogBuffer and handed to detect, and
\* stays as it is in every other step that is not clear_all_logs: the
\* sequence is the parsed lines in the order of their arrival, each once.
C31_ArrivalOrderKept ==
    [][\A before \in {allLogs \o pendingLogs}, after \in {allLogs' \o pendingLogs'} :
          /\ OnLogReceived =>
               \A parsed_dict \in {ParsedLine[Head(mainQueue).line]} :
                  IF parsed_dict = None
                  THEN after = before
                  ELSE /\ after = Append(before, TupleOf(parsed_dict))
                       /\ <<buffer', errorLogs'>> = BufferAdd(<<buffer, errorLogs>>, parsed_dict)
                       /\ _parse_log_line(Head(mainQueue).line).detected = <<parsed_dict>>
          /\ (~OnLogReceived /\ ~ClearAllLogs) => after = before]_vars

\* the first line received is in the store and the second waits in the queue
C31_Witness ==
    /\ allLogs = <<TupleOf(ParsedLine[StrippedLine[LineNet]])>>
    /\ pendingLogs = <<TupleOf(ParsedLine[StrippedLine[LineCluster]])>>
    /\ logcatThread.written = 2

C34_InstallIsOnlyTheSwap ==
    [][OnPreparedData =>
          /\ allLogs' = Head(mainQueue).all_logs
          /\ filteredIndices' = Head(mainQueue).filtered_indices
          /\ matchedFilters' = Head(mainQueue).matched_filters]_vars

\* C35: a step that runs _process_pending_logs (timer tick, line-received
\* handler reaching batch_size, stop) appends one batch to the store: the
\* first n records of the pending queue, n at most batch_size and during
\* warm-up at most min(50, batch_size // 2); those n leave the queue and
\* the rest stays in order
C35_OneBoundedHeadBatch ==
    [][(allLogs' # allLogs /\ ~ClearAllLogs) =>
          \E pending \in {IF OnLogReceived
                           THEN Append(pendingLogs, _parse_log_line(Head(mainQueue).line).log_data)
                           ELSE pendingLogs} :
             \E n \in 1..Len(pending) :
                /\ n <= BatchSize
                /\ (logCollectionStartTime = "recent" /\ logCollectionStartTime' = "recent")
                      => (n <= WarmupBatchCap /\ 2 * n <= BatchSize)
                /\ allLogs' = allLogs \o SubSeq(pending, 1, n)
                /\ pendingLogs' = SubSeq(pending, n + 1, Len(pending))]_vars

\* a warm-up batch has been appended and a record is left in the queue
C35_Witness ==
    /\ logCollectionStartTime = "recent"
    /\ Len(allLogs) = 1
    /\ Len(pendingLogs) = 1
    /\ logcatThread.written = 2
    /\ mainQueue = <<>>

\* C36: after every completed line-received handler and every consumer
\* tick (in every state between handlers of the live pipeline, inside and
\* outside warm-up) the pending queue holds fewer than batch_size records
C36_PendingBelowBatchSize == Len(pendingLogs) < BatchSize

\* the line-received handler has found the queue one short of batch_size
\* during warm-up and has left part of it behind
C36_Witness ==
    /\ logCollectionStartTime = "recent"
    /\ allLogs # <<>>
    /\ Len(pendingLogs) = BatchSize - 1
    /\ updateTimer

\* C37: compute_filtered_indices_and_matches(logs, rules) returns the
\* filtered_indices and matched_filters that set_filters(rules) leaves in a
\* store whose all_records is logs
C37_WorkerPassEqualsSetFilters ==
    [][(SetFilters \/ SetFieldFilters) =>
          <<filteredIndices', matchedFilters'>> =
              compute_filtered_indices_and_matches(allLogs', filters')]_vars

\* set_filters has run over stored records with two Show rules, one of them
\* a regular expression, that exclude some records and style others
C37_Witness ==
    /\ filters = <<ShowLevel, ShowRegex>>
    /\ 0 < Len(filteredIndices)
    /\ Len(filteredIndices) < Len(allLogs)
    /\ <<filteredIndices, matchedFilters>> = reapply_filters(filters, allLogs, 0)

\* the outcome of load k is on its way to the caller or the load was
\* cancelled: its prepared_data signal is queued (records installed next),
\* its load_complete is being handled with no record pending (zero records
\* reported), or its thread has emitted load_error
LoadOutcome(k) ==
    \/ \E i \in DOMAIN mainQueue :
          mainQueue[i].sig = "prepared_data" /\ mainQueue[i].load = k
    \/ /\ mainQueue # <<>>
       /\ Head(mainQueue).sig = "load_complete"
       /\ Head(mainQueue).load = k
       /\ pendingFileLogs = <<>>
    \/ /\ fileLoadThread.load = k
       /\ fileLoadThread.state = "emitted"
       /\ ~fileLoadThread.completed

LoadCancelled(k) == fileLoadThread.load = k /\ fileLoadThread.should_cancel

\* C38: every bulk load that is started and not cancelled eventually
\* reaches an outcome the caller sees, whichever parser is available: its
\* records are installed, completion with zero records is reported, or
\* load_error is emitted
C38_LoadReachesOutcome ==
    \A k \in 1..MaxLoads :
        (fileLoadThread.state = "running" /\ fileLoadThread.load = k)
            ~> (LoadOutcome(k) \/ LoadCancelled(k))

\* the same for loads run with a native parser, streaming or not
NativeLoadReachesOutcome ==
    \A k \in 1..MaxLoads :
        (parserMode # "python" /\ fileLoadThread.state = "running" /\ fileLoadThread.load = k)
            ~> (LoadOutcome(k) \/ LoadCancelled(k))

\* C39: when the record errors_only[error_index] is still in main,
\* get_context_around_error returns a window whose first record is that
\* error record, also when an earlier record of main has its timestamp
C39_WindowStartsAtErrorRecord ==
    [][\A error_index \in {Get(queryResult', "error_index", 0)},
          context_lines \in {Get(queryResult', "context_lines", 0)} :
         (/\ queryResult'.op = "get_context_around_error"
          /\ GetContextCall(error_index, context_lines)
          /\ error_index \in 0..(Len(errorLogs) - 1)
          /\ \E i \in 1..Len(buffer) : buffer[i] = errorLogs[error_index + 1]) =>
            /\ queryResult'.value # <<>>
            /\ Head(queryResult'.value) = errorLogs[error_index + 1]]_vars

\* C40: a detect call that returns a result has invoked the registered
\* callback once, with that result, by the time it returns; a detect call
\* that returns None invokes nothing, and neither does detect_in_text (the
\* steps that leave the registry and the callback alone are the calls of
\* detect and detect_in_text, told apart by the result they leave)
C40_CallbackOncePerResult ==
    [][UNCHANGED <<patterns, onErrorDetected>> =>
          /\ queryResult'.op = "detect" =>
                callbackLog' = IF queryResult'.value # None /\ onErrorDetected
                               THEN Append(callbackLog, queryResult'.value)
                               ELSE callbackLog
          /\ queryResult'.op = "detect_in_text" => callbackLog' = callbackLog]_vars

\* two detect calls have returned different results, each handed to the
\* callback, and detect_in_text has then found matches
C40_Witness ==
    /\ queryResult.op = "detect_in_text"
    /\ queryResult.value # <<>>
    /\ Len(callbackLog) = 2
    /\ callbackLog[1] # callbackLog[2]
    /\ onErrorDetected

====
